---- MODULE Spec2Model ----
(***************************************************************************)
(* Cluster-graph builder of rs3cache_extractor: entrance discovery (D),    *)
(* inter-connector (E), intra-connector (F) with its A* search, the        *)
(* orchestrator that runs D, E, F in order and the per-chunk executor.     *)
(* The store is the SQLite database: the tile tables are read-only input,  *)
(* the three cluster_* tables are the output.                              *)
(***************************************************************************)
EXTENDS Integers, Sequences, FiniteSets, TLC

VARIABLES
    world,   \* the input tables: chunks, tiles, movement_policy, jps_jump
    store,   \* the output tables: cluster_entrances / _interconnections / _intraconnections
    last,    \* the number of invocations made and, once one is recorded, that invocation:
             \* its arguments, the store before it, what it returned; it is the last one
    pool,    \* execute_phase with workers > 1: the per-chunk tasks in flight
    search,  \* one _a_star call in progress (the search specification)
    ctx      \* one DbContext: its flags, its connection and the call in progress

vars == <<world, store, last, pool, search, ctx>>

-----------------------------------------------------------------------------
(* Bounds of the model *)

\* largest entrance_id the model lets the store hand out
MaxId == 8
\* most blocked tiles in a grid of the search specification
MaxBlocked == 2
\* most invocations in one run of the model
MaxCalls == 2
\* most pipeline runs in one run of the model when nothing but the pipeline runs
MaxRuns == 3
\* most workers of the executor's pool
MaxWorkers == 2
\* most upsert statements in one run of the upsert specification
MaxUpserts == 3
\* largest cost an upsert statement carries
MaxCost == 2
\* most calls on the DbContext in one run of the DbContext specification
MaxStmts == 3
\* most walk_data flags set to false in a world of the crossing specification
MaxFlags == 2
\* longest path handed to extract_waypoints in the specification of the pure functions
MaxPath == 4
\* longest chunk list handed to _partition in the specification of the pure functions
MaxItems == 5
\* deepest nesting of transaction() blocks in the specification of nested blocks
MaxDepth == 2
\* most steps (a block entered or left, a statement) in a run of that specification
MaxBlockSteps == 5
\* the most invocations in a run of the re-run specification: a pipeline run, a
\* discovery that stops half way and an Intra-Connector run after it
MaxReruns == 3

-----------------------------------------------------------------------------
(* Small helpers *)

Max2(a, b) == IF a >= b THEN a ELSE b
Min2(a, b) == IF a <= b THEN a ELSE b
Abs(a) == IF a < 0 THEN -a ELSE a

\* an optional integer is <<>> (None) or <<n>>
None == <<>>
Some(n) == <<n>>

\* lexicographic order on tiles <<x, y>>, the order of the tiles primary key
TileLess(a, b) == a[1] < b[1] \/ (a[1] = b[1] /\ a[2] < b[2])

RECURSIVE SortTiles(_)
SortTiles(S) ==
    IF S = {} THEN <<>>
    ELSE LET m == CHOOSE a \in S : \A b \in S : a = b \/ TileLess(a, b)
         IN <<m>> \o SortTiles(S \ {m})

RECURSIVE Concat(_)
Concat(ss) == IF ss = <<>> THEN <<>> ELSE Head(ss) \o Concat(Tail(ss))

-----------------------------------------------------------------------------
(* The tile store (read-only input) *)

\* chunk bounds (x0, y0, x1, y1)
ChunkBounds(c, size) ==
    <<c[1] * size, c[2] * size, c[1] * size + size - 1, c[2] * size + size - 1>>

InBounds(x, y, b) == b[1] <= x /\ x <= b[3] /\ b[2] <= y /\ y <= b[4]

ChunkSet(w) == {w.chunks[i] : i \in 1..Len(w.chunks)}

\* the tiles table holds one row per tile of every chunk, on plane 0
ChunkTiles(w, c) ==
    LET b == ChunkBounds(c, w.size)
    IN {<<x, y>> : x \in b[1]..b[3], y \in b[2]..b[4]}

TileExists(w, x, y, p) == p = 0 /\ \E c \in ChunkSet(w) : <<x, y>> \in ChunkTiles(w, c)

\* blocked = 0 AND walk_mask != 0; a missing row is not walkable
IsWalkable(w, x, y, p) == TileExists(w, x, y, p) /\ <<x, y>> \notin w.blocked

\* a walk_data flag, TRUE when the key or the row is missing
WalkFlag(w, x, y, p, key) == ~(TileExists(w, x, y, p) /\ <<x, y, key>> \in w.noflag)

\* the chunk_range filter (x_min, x_max, z_min, z_max), each bound optional
InRange(c, cr) ==
    /\ (cr[1] = None \/ c[1] >= cr[1][1])
    /\ (cr[2] = None \/ c[1] <= cr[2][1])
    /\ (cr[3] = None \/ c[2] >= cr[3][1])
    /\ (cr[4] = None \/ c[2] <= cr[4][1])

ChunksInRange(w, cr) == SelectSeq(w.chunks, LAMBDA c : InRange(c, cr))

\* planes = None discovers the planes of the chunk's tiles
PlanesForChunk(w, c, planes) == IF planes.all THEN <<0>> ELSE planes.list

PlaneSelected(p, planes) ==
    planes.all \/ Len(planes.list) = 0 \/ \E i \in 1..Len(planes.list) : planes.list[i] = p

-----------------------------------------------------------------------------
(* The output tables *)

EmptyStore == [ent |-> {}, inter |-> {}, intra |-> {}]

Ids(ent) == {r.id : r \in ent}

\* entrance_id INTEGER PRIMARY KEY: a new row gets the largest id plus one
NextId(ent) ==
    IF ent = {} THEN 1
    ELSE (CHOOSE i \in Ids(ent) : \A j \in Ids(ent) : j <= i) + 1

SameTile(r, s) ==
    r.cx = s.cx /\ r.cz = s.cz /\ r.plane = s.plane /\ r.x = s.x /\ r.y = s.y

\* a delete guard that forgets dry_run
DeleteOnRecompute(recompute, dry_run) == recompute

\* the output rows an invocation may delete: only a real run with recompute
ShouldDelete(recompute, dry_run) == recompute /\ ~dry_run

-----------------------------------------------------------------------------
(* Statements: what one conn.execute of a phase does to the output tables. *)
(* cnt is what the phase adds to its "created" counter after the statement *)

\* DELETE FROM cluster_entrances WHERE chunk_x=? AND chunk_z=? AND plane=?
DeleteEntrances(ent, s) ==
    {r \in ent : ~(r.cx = s.cx /\ r.cz = s.cz /\ r.plane = s.plane)}

\* an insert whose conflict clause loses the row it meets
UpsertEntranceDrop(ent, s) ==
    IF \E r \in ent : SameTile(r, s)
    THEN {r \in ent : ~SameTile(r, s)}
    ELSE ent \cup {[id |-> NextId(ent), cx |-> s.cx, cz |-> s.cz, plane |-> s.plane,
                    x |-> s.x, y |-> s.y, dir |-> s.dir]}

\* INSERT INTO cluster_entrances ... ON CONFLICT(chunk, plane, x, y)
\* DO UPDATE SET neighbor_dir = excluded.neighbor_dir
UpsertEntrance(ent, s) ==
    IF \E r \in ent : SameTile(r, s)
    THEN {IF SameTile(r, s) THEN [r EXCEPT !.dir = s.dir] ELSE r : r \in ent}
    ELSE ent \cup {[id |-> NextId(ent), cx |-> s.cx, cz |-> s.cz, plane |-> s.plane,
                    x |-> s.x, y |-> s.y, dir |-> s.dir]}

\* the entrance ids of a scope, as the sub-select of the scope delete reads them
ScopeIds(ent, cr, planes) ==
    {r.id : r \in {e \in ent : InRange(<<e.cx, e.cz>>, cr) /\ PlaneSelected(e.plane, planes)}}

\* DELETE FROM cluster_interconnections WHERE entrance_from IN (scope ids)
DeleteInterScope(db, s) ==
    {r \in db.inter : r.from \notin ScopeIds(db.ent, s.cr, s.planes)}

\* INSERT INTO cluster_interconnections ... ON CONFLICT(entrance_from, entrance_to)
\* DO UPDATE SET cost = MIN(old, new)
UpsertInter(inter, s) ==
    IF \E r \in inter : r.from = s.from /\ r.to = s.to
    THEN {IF r.from = s.from /\ r.to = s.to
          THEN [r EXCEPT !.cost = Min2(r.cost, s.cost)] ELSE r : r \in inter}
    ELSE inter \cup {[from |-> s.from, to |-> s.to, cost |-> s.cost]}

\* DELETE FROM cluster_intraconnections WHERE chunk_x_from=? AND chunk_z_from=? AND plane_from=?
DeleteIntraScope(intra, s) ==
    {r \in intra : ~(r.cx = s.cx /\ r.cz = s.cz /\ r.plane = s.plane)}

SameIntraKey(r, s) ==
    r.cx = s.cx /\ r.cz = s.cz /\ r.plane = s.plane /\ r.from = s.from /\ r.to = s.to

\* an upsert whose conflict clause takes the new cost and the new blob as they come
UpsertIntraLast(intra, s) ==
    {r \in intra : ~SameIntraKey(r, s)}
    \cup {[cx |-> s.cx, cz |-> s.cz, plane |-> s.plane, from |-> s.from,
           to |-> s.to, cost |-> s.cost, blob |-> s.blob]}

\* INSERT INTO cluster_intraconnections ... ON CONFLICT(full key) DO UPDATE SET
\* cost = MIN(old, new), path_blob = new when new IS NOT NULL else old
UpsertIntra(intra, s) ==
    IF \E r \in intra : SameIntraKey(r, s)
    THEN {IF SameIntraKey(r, s)
          THEN [r EXCEPT !.cost = Min2(r.cost, s.cost),
                         !.blob = IF s.blob # None THEN s.blob ELSE r.blob]
          ELSE r : r \in intra}
    ELSE intra \cup {[cx |-> s.cx, cz |-> s.cz, plane |-> s.plane, from |-> s.from,
                      to |-> s.to, cost |-> s.cost, blob |-> s.blob]}

ApplyStmt(db, s) ==
    CASE s.t = "delE" -> [db EXCEPT !.ent = DeleteEntrances(db.ent, s)]
      [] s.t = "upE"  -> [db EXCEPT !.ent = UpsertEntrance(db.ent, s)]
      [] s.t = "delI" -> [db EXCEPT !.inter = DeleteInterScope(db, s)]
      [] s.t = "upI"  -> [db EXCEPT !.inter = UpsertInter(db.inter, s)]
      [] s.t = "delF" -> [db EXCEPT !.intra = DeleteIntraScope(db.intra, s)]
      [] s.t = "upF"  -> [db EXCEPT !.intra = UpsertIntra(db.intra, s)]
      [] OTHER        -> db   \* "count": the dry-run branch, created += n; continue

\* the first k statements of a phase, applied in order
RECURSIVE ApplyPrefix(_, _, _)
ApplyPrefix(db, stmts, k) ==
    IF k = 0 THEN db
    ELSE ApplyStmt(ApplyPrefix(db, stmts, k - 1), stmts[k])

RECURSIVE CreatedOf(_, _)
CreatedOf(stmts, k) == IF k = 0 THEN 0 ELSE CreatedOf(stmts, k - 1) + stmts[k].cnt

-----------------------------------------------------------------------------
(* D: entrance discovery *)

\* Convention B: N means y+1, S means y-1
DIRECTIONS == << <<"N", 0, 1>>, <<"E", 1, 0>>, <<"S", 0, -1>>, <<"W", -1, 0>> >>

\* entrance_discovery._can_cross: b is read from the tile its own delta table names
CanCrossD(w, x, y, p, d) ==
    LET dx == IF d = "N" THEN 0 ELSE IF d = "S" THEN 0 ELSE IF d = "E" THEN 1 ELSE -1
        dy == IF d = "N" THEN -1 ELSE IF d = "S" THEN 1 ELSE 0
        nx == x + dx
        ny == y + dy
    IN CASE d = "N" -> WalkFlag(w, x, y, p, "bottom") /\ WalkFlag(w, nx, ny, p, "top")
         [] d = "S" -> WalkFlag(w, x, y, p, "top") /\ WalkFlag(w, nx, ny, p, "bottom")
         [] d = "E" -> WalkFlag(w, x, y, p, "right") /\ WalkFlag(w, nx, ny, p, "left")
         [] d = "W" -> WalkFlag(w, x, y, p, "left") /\ WalkFlag(w, nx, ny, p, "right")
         [] OTHER -> TRUE

\* walkable tiles of the chunk+plane on an edge of the chunk, in row order
BorderTiles(w, c, p) ==
    LET b == ChunkBounds(c, w.size)
    IN SortTiles({t \in ChunkTiles(w, c) :
                    /\ (t[1] \in {b[1], b[3]} \/ t[2] \in {b[2], b[4]})
                    /\ IsWalkable(w, t[1], t[2], p)})

\* the borders the tile lies on
DirsOf(x, y, b) ==
    (IF y = b[2] THEN {"S"} ELSE {}) \cup (IF x = b[3] THEN {"E"} ELSE {})
    \cup (IF y = b[4] THEN {"N"} ELSE {}) \cup (IF x = b[1] THEN {"W"} ELSE {})

\* the first direction of DIRECTIONS that applies, is walkable outside and can be crossed
ChosenDir(w, c, x, y, p) ==
    LET b == ChunkBounds(c, w.size)
        Q == {i \in 1..Len(DIRECTIONS) :
                /\ DIRECTIONS[i][1] \in DirsOf(x, y, b)
                /\ IsWalkable(w, x + DIRECTIONS[i][2], y + DIRECTIONS[i][3], p)
                /\ CanCrossD(w, x, y, p, DIRECTIONS[i][1])}
    IN IF Q = {} THEN None
       ELSE Some(DIRECTIONS[CHOOSE i \in Q : \A j \in Q : i <= j][1])

\* one border tile of the loop: nothing, the dry-run count, or the upsert
EntranceEmit(w, c, p, t, dry_run) ==
    LET d == ChosenDir(w, c, t[1], t[2], p)
    IN IF d = None THEN <<>>
       ELSE IF dry_run THEN << [t |-> "count", cnt |-> 1] >>
       ELSE << [t |-> "upE", cx |-> c[1], cz |-> c[2], plane |-> p,
                x |-> t[1], y |-> t[2], dir |-> d[1], cnt |-> 1] >>

\* the loop over the border tiles of one chunk+plane
EntranceLoop(w, c, p, border, dry_run) ==
    Concat([i \in 1..Len(border) |-> EntranceEmit(w, c, p, border[i], dry_run)])

\* the statements of one chunk+plane
EntranceChunkPlane(w, c, p, recompute, dry_run) ==
    (IF ShouldDelete(recompute, dry_run)
     THEN << [t |-> "delE", cx |-> c[1], cz |-> c[2], plane |-> p, cnt |-> 0] >>
     ELSE <<>>)
    \o EntranceLoop(w, c, p, BorderTiles(w, c, p), dry_run)

\* the loop over the planes of one chunk
EntrancePlanes(w, c, ps, a) ==
    Concat([j \in 1..Len(ps) |-> EntranceChunkPlane(w, c, ps[j], a.recompute, a.dry_run)])

\* the loop over the chunks of the scope
EntranceChunks(w, cs, a) ==
    Concat([i \in 1..Len(cs) |-> EntrancePlanes(w, cs[i], PlanesForChunk(w, cs[i], a.planes), a)])

\* entrance_discovery.run: the statements it issues, in order
EntranceStmts(w, a) == EntranceChunks(w, ChunksInRange(w, a.cr), a)

-----------------------------------------------------------------------------
(* E: inter-connector *)

OPPOSITE(d) == CASE d = "N" -> "S" [] d = "S" -> "N" [] d = "E" -> "W" [] d = "W" -> "E"

DIR_DELTA(d) ==
    CASE d = "N" -> <<0, 1>> [] d = "E" -> <<1, 0>> [] d = "S" -> <<0, -1>> [] d = "W" -> <<-1, 0>>

\* inter_connector._can_cross: b is read from the tile across the border
CanCrossE(w, x, y, p, d) ==
    LET nx == x + DIR_DELTA(d)[1]
        ny == y + DIR_DELTA(d)[2]
    IN CASE d = "N" -> WalkFlag(w, x, y, p, "bottom") /\ WalkFlag(w, nx, ny, p, "top")
         [] d = "S" -> WalkFlag(w, x, y, p, "top") /\ WalkFlag(w, nx, ny, p, "bottom")
         [] d = "E" -> WalkFlag(w, x, y, p, "right") /\ WalkFlag(w, nx, ny, p, "left")
         [] d = "W" -> WalkFlag(w, x, y, p, "left") /\ WalkFlag(w, nx, ny, p, "right")
         [] OTHER -> TRUE

NeighborChunk(cx, cz, d) ==
    CASE d = "N" -> <<cx, cz + 1>> [] d = "S" -> <<cx, cz - 1>>
      [] d = "E" -> <<cx + 1, cz>> [] d = "W" -> <<cx - 1, cz>>

\* ORDER BY chunk_x, chunk_z, plane, entrance_id
EntLess(r, s) ==
    \/ r.cx < s.cx
    \/ r.cx = s.cx /\ r.cz < s.cz
    \/ r.cx = s.cx /\ r.cz = s.cz /\ r.plane < s.plane
    \/ r.cx = s.cx /\ r.cz = s.cz /\ r.plane = s.plane /\ r.id < s.id

RECURSIVE SortEnt(_)
SortEnt(S) ==
    IF S = {} THEN <<>>
    ELSE LET m == CHOOSE a \in S : \A b \in S : a = b \/ EntLess(a, b)
         IN <<m>> \o SortEnt(S \ {m})

\* the entrances of the scope, as _select_chunk_pairs lists them
SelectChunkPairs(ent, cr, planes) ==
    SortEnt({e \in ent : InRange(<<e.cx, e.cz>>, cr) /\ PlaneSelected(e.plane, planes)})

\* the id of the entrance across the border with the opposite direction, if any
FindOpposingEntrance(ent, e) ==
    LET n == NeighborChunk(e.cx, e.cz, e.dir)
        M == {r \in ent : /\ r.cx = n[1] /\ r.cz = n[2] /\ r.plane = e.plane
                          /\ r.x = e.x + DIR_DELTA(e.dir)[1]
                          /\ r.y = e.y + DIR_DELTA(e.dir)[2]
                          /\ r.dir = OPPOSITE(e.dir)}
    IN IF M = {} THEN None ELSE Some((CHOOSE r \in M : TRUE).id)

\* one entrance of the loop: skipped, the dry-run count, or the two upserts
InterEmit(w, ent, e, dry_run) ==
    LET dx == DIR_DELTA(e.dir)[1]
        dy == DIR_DELTA(e.dir)[2]
        opp == FindOpposingEntrance(ent, e)
    IN IF ~IsWalkable(w, e.x, e.y, e.plane) THEN <<>>
       ELSE IF ~IsWalkable(w, e.x + dx, e.y + dy, e.plane) THEN <<>>
       ELSE IF ~CanCrossE(w, e.x, e.y, e.plane, e.dir) THEN <<>>
       ELSE IF opp = None THEN <<>>
       ELSE IF dry_run THEN << [t |-> "count", cnt |-> 2] >>
       ELSE << [t |-> "upI", from |-> e.id, to |-> opp[1], cost |-> 1, cnt |-> 0],
               [t |-> "upI", from |-> opp[1], to |-> e.id, cost |-> 1, cnt |-> 2] >>

\* the loop over the entrances of the scope
InterLoop(w, ent, es, dry_run) ==
    Concat([i \in 1..Len(es) |-> InterEmit(w, ent, es[i], dry_run)])

\* a run that clears its scope after its writes instead of before them
InterStmtsDeleteLast(w, db, a) ==
    InterLoop(w, db.ent, SelectChunkPairs(db.ent, a.cr, a.planes), a.dry_run)
    \o (IF ShouldDelete(a.recompute, a.dry_run)
        THEN << [t |-> "delI", cr |-> a.cr, planes |-> a.planes, cnt |-> 0] >>
        ELSE <<>>)

\* inter_connector.run: the statements it issues, in order
InterStmts(w, db, a) ==
    (IF ShouldDelete(a.recompute, a.dry_run)
     THEN << [t |-> "delI", cr |-> a.cr, planes |-> a.planes, cnt |-> 0] >>
     ELSE <<>>)
    \o InterLoop(w, db.ent, SelectChunkPairs(db.ent, a.cr, a.planes), a.dry_run)


-----------------------------------------------------------------------------
(* Neighbor policy, JPS expansion and the A* search of the intra-connector *)

\* the walkability callback of one chunk+plane: the local set inside the bounds,
\* the tiles table outside them
WalkableCb(env, x, y, p) ==
    IF p # env.plane THEN IsWalkable(env.w, x, y, p)
    ELSE IF InBounds(x, y, env.bounds) THEN <<x, y>> \in env.local
    ELSE IsWalkable(env.w, x, y, p)

\* the walkable tiles of the chunk+plane
BuildLocalWalkable(w, c, p) == {t \in ChunkTiles(w, c) : IsWalkable(w, t[1], t[2], p)}

\* a search area that reaches one chunk further on every side
MakeEnvWide(w, c, p) ==
    [w |-> w, plane |-> p,
     bounds |-> <<ChunkBounds(c, w.size)[1] - w.size, ChunkBounds(c, w.size)[2] - w.size,
                  ChunkBounds(c, w.size)[3] + w.size, ChunkBounds(c, w.size)[4] + w.size>>,
     local |-> {t \in UNION {ChunkTiles(w, d) : d \in ChunkSet(w)} : IsWalkable(w, t[1], t[2], p)}]

MakeEnv(w, c, p) ==
    [w |-> w, plane |-> p, bounds |-> ChunkBounds(c, w.size),
     local |-> BuildLocalWalkable(w, c, p)]

ChebyshevCost(ax, ay, bx, by) == Max2(Abs(bx - ax), Abs(by - ay))

\* a step that looks at the destination alone, whatever the radius
CanStepAlone(env, nx, ny, p) == WalkableCb(env, nx, ny, p)

\* the target is walkable and, for r > 0, so is the whole square of radius r around it
CanStep(env, nx, ny, p) ==
    /\ WalkableCb(env, nx, ny, p)
    /\ LET r == env.w.policy.r
       IN r <= 0 \/ \A ox \in (-r)..r, oy \in (-r)..r : WalkableCb(env, nx + ox, ny + oy, p)

Cardinals == << <<0, -1>>, <<1, 0>>, <<0, 1>>, <<-1, 0>> >>
Diagonals == << <<1, -1>>, <<1, 1>>, <<-1, 1>>, <<-1, -1>> >>

\* NeighborPolicy.neighbors: the admissible neighbours, cardinals then diagonals
Neighbors(env, x, y, p) ==
    LET card == SelectSeq(Cardinals, LAMBDA d : CanStep(env, x + d[1], y + d[2], p))
        diag == SelectSeq(Diagonals, LAMBDA d :
                    /\ (env.w.policy.corner # 0
                        \/ (WalkableCb(env, x + d[1], y, p) /\ WalkableCb(env, x, y + d[2], p)))
                    /\ CanStep(env, x + d[1], y + d[2], p))
        step == card \o (IF env.w.policy.diag # 0 THEN diag ELSE <<>>)
    IN [i \in 1..Len(step) |-> <<x + step[i][1], y + step[i][2]>>]

\* the jump targets of the tile that are walkable, first occurrence kept
RECURSIVE JumpTargets(_, _, _)
JumpTargets(env, rows, seen) ==
    IF rows = <<>> THEN <<>>
    ELSE LET n == Head(rows).next
         IN IF n \in seen \/ ~WalkableCb(env, n[1], n[2], env.plane)
            THEN JumpTargets(env, Tail(rows), seen)
            ELSE <<n>> \o JumpTargets(env, Tail(rows), seen \cup {n})

\* expand_with_jps: the jump targets when the tables exist and give any, else the neighbours
ExpandWithJps(env, x, y, p) ==
    LET rows == SelectSeq(env.w.jps,
                    LAMBDA r : r.x = x /\ r.y = y /\ r.plane = p /\ r.next # None)
        res == JumpTargets(env, rows, {})
    IN IF env.w.jpsTables /\ res # <<>> THEN res ELSE Neighbors(env, x, y, p)

\* heap order on (f, node): f first, then the node tuple
EntryLess(a, b) == a.f < b.f \/ (a.f = b.f /\ TileLess(a.n, b.n))

\* the position heappop takes: a least entry (equal entries are the same tuple)
PopIndex(open) ==
    CHOOSE i \in 1..Len(open) :
        \A j \in 1..Len(open) :
            /\ ~EntryLess(open[j], open[i])
            /\ (j < i => EntryLess(open[i], open[j]))

RemoveAt(q, i) == SubSeq(q, 1, i - 1) \o SubSeq(q, i + 1, Len(q))

\* a neighbour loop that pushes closed nodes again
RECURSIVE RelaxReopen(_, _, _, _, _)
RelaxReopen(env, goal, cur, nbrs, s) ==
    IF nbrs = <<>> THEN s
    ELSE LET n == Head(nbrs)
             step == ChebyshevCost(cur[1], cur[2], n[1], n[2])
             tentative == s.g[cur] + step
             better == n \notin DOMAIN s.g \/ tentative < s.g[n] \/ n \in s.closed
             skip == \/ ~InBounds(n[1], n[2], env.bounds)
                     \/ step <= 0
                     \/ ~better
             s2 == IF skip THEN s
                   ELSE [s EXCEPT
                           !.came = [m \in DOMAIN s.came \cup {n} |->
                                        IF m = n THEN cur ELSE s.came[m]],
                           !.g = [m \in DOMAIN s.g \cup {n} |->
                                        IF m = n THEN tentative ELSE s.g[m]],
                           !.open = Append(s.open,
                                        [f |-> tentative
                                               + ChebyshevCost(n[1], n[2], goal[1], goal[2]),
                                         n |-> n]),
                           !.pushed = s.pushed \cup {n}]
         IN RelaxReopen(env, goal, cur, Tail(nbrs), s2)

\* the neighbour loop of one expansion
RECURSIVE Relax(_, _, _, _, _)
Relax(env, goal, cur, nbrs, s) ==
    IF nbrs = <<>> THEN s
    ELSE LET n == Head(nbrs)
             step == ChebyshevCost(cur[1], cur[2], n[1], n[2])
             tentative == s.g[cur] + step
             better == n \notin DOMAIN s.g \/ tentative < s.g[n]
             skip == \/ ~InBounds(n[1], n[2], env.bounds)
                     \/ n \in s.closed
                     \/ step <= 0
                     \/ ~better
             s2 == IF skip THEN s
                   ELSE [s EXCEPT
                           !.came = [m \in DOMAIN s.came \cup {n} |->
                                        IF m = n THEN cur ELSE s.came[m]],
                           !.g = [m \in DOMAIN s.g \cup {n} |->
                                        IF m = n THEN tentative ELSE s.g[m]],
                           !.open = Append(s.open,
                                        [f |-> tentative
                                               + ChebyshevCost(n[1], n[2], goal[1], goal[2]),
                                         n |-> n]),
                           !.pushed = s.pushed \cup {n}]
         IN Relax(env, goal, cur, Tail(nbrs), s2)

\* a reconstruction that leaves out the node without a predecessor, the start
RECURSIVE ReconstructTail(_, _)
ReconstructTail(came, cur) ==
    IF cur \in DOMAIN came THEN Append(ReconstructTail(came, came[cur]), cur) ELSE <<>>

RECURSIVE Reconstruct(_, _)
Reconstruct(came, cur) ==
    IF cur \in DOMAIN came THEN Append(Reconstruct(came, came[cur]), cur) ELSE <<cur>>

\* the state of _a_star before its loop; it returns None at once on a bad start or goal
AStarStart(env, start, goal) ==
    LET ok == /\ InBounds(start[1], start[2], env.bounds)
              /\ InBounds(goal[1], goal[2], env.bounds)
              /\ WalkableCb(env, start[1], start[2], env.plane)
              /\ WalkableCb(env, goal[1], goal[2], env.plane)
    IN [status |-> IF ok THEN "run" ELSE "none",
        open |-> IF ok THEN << [f |-> 0, n |-> start] >> ELSE <<>>,
        g |-> [m \in {start} |-> 0],
        came |-> [m \in {} |-> start],
        closed |-> {},
        pushed |-> {},
        cur |-> start,
        cost |-> 0,
        path |-> <<>>]

\* one pass of the while loop: pop, skip a closed node, return at the goal, else expand
AStarIter(env, goal, s) ==
    IF s.open = <<>> THEN [s EXCEPT !.status = "none"]
    ELSE LET i == PopIndex(s.open)
             cur == s.open[i].n
             rest == RemoveAt(s.open, i)
         IN IF cur \in s.closed THEN [s EXCEPT !.open = rest, !.cur = cur, !.pushed = {}]
            ELSE IF cur = goal
            THEN [s EXCEPT !.open = rest, !.closed = s.closed \cup {cur}, !.cur = cur,
                           !.pushed = {},
                           !.status = "found", !.cost = s.g[goal],
                           !.path = Reconstruct(s.came, cur)]
            ELSE Relax(env, goal, cur, ExpandWithJps(env, cur[1], cur[2], env.plane),
                       [s EXCEPT !.open = rest, !.closed = s.closed \cup {cur},
                                 !.cur = cur, !.pushed = {}])

RECURSIVE AStarLoop(_, _, _)
AStarLoop(env, goal, s) ==
    IF s.status # "run" THEN s ELSE AStarLoop(env, goal, AStarIter(env, goal, s))

\* _a_star: status "found" with (cost, path), or "none"
AStar(env, start, goal) == AStarLoop(env, goal, AStarStart(env, start, goal))

\* a direction that looks at x alone
DirOfX(a, b) == << IF b[1] = a[1] THEN 0 ELSE IF b[1] > a[1] THEN 1 ELSE -1, 0 >>

\* the sign direction of a step
DirOf(a, b) ==
    << IF b[1] = a[1] THEN 0 ELSE IF b[1] > a[1] THEN 1 ELSE -1,
       IF b[2] = a[2] THEN 0 ELSE IF b[2] > a[2] THEN 1 ELSE -1 >>

RECURSIVE TurnsFrom(_, _, _)
TurnsFrom(path, i, prev) ==
    IF i > Len(path) - 1 THEN <<>>
    ELSE LET d == DirOf(path[i], path[i + 1])
         IN IF d # prev THEN <<path[i]>> \o TurnsFrom(path, i + 1, d)
            ELSE TurnsFrom(path, i + 1, prev)

\* extract_waypoints: the endpoints and every tile where the direction changes
ExtractWaypoints(path) ==
    IF Len(path) <= 2 THEN path
    ELSE <<path[1]>> \o TurnsFrom(path, 2, DirOf(path[1], path[2])) \o <<path[Len(path)]>>

-----------------------------------------------------------------------------
(* F: intra-connector *)

RECURSIVE SortIds(_)
SortIds(S) ==
    IF S = {} THEN <<>>
    ELSE LET m == CHOOSE a \in S : \A b \in S : a.id <= b.id
         IN <<m>> \o SortIds(S \ {m})

\* the pairs (i, j), i < j, in loop order
Pairs(n) ==
    Concat([i \in 1..n |-> [k \in 1..(n - i) |-> <<i, i + k>>]])

\* path_blob: the waypoints as [[x, y], ...] when store_paths, else NULL
WaypointBlob(path, store_paths) ==
    IF store_paths THEN Some(ExtractWaypoints(path)) ELSE None

\* a pair loop that writes the reverse row with another cost
IntraEmitUneven(env, c, p, e1, e2, a) ==
    LET found == AStar(env, <<e1.x, e1.y>>, <<e2.x, e2.y>>)
        blob == WaypointBlob(found.path, a.store_paths)
    IN IF e1.x = e2.x /\ e1.y = e2.y THEN <<>>
       ELSE IF found.status # "found" THEN <<>>
       ELSE IF a.dry_run THEN << [t |-> "count", cnt |-> 2] >>
       ELSE << [t |-> "upF", cx |-> c[1], cz |-> c[2], plane |-> p, from |-> e1.id,
                to |-> e2.id, cost |-> found.cost, blob |-> blob, cnt |-> 0],
               [t |-> "upF", cx |-> c[1], cz |-> c[2], plane |-> p, from |-> e2.id,
                to |-> e1.id, cost |-> found.cost + 1, blob |-> blob, cnt |-> 2] >>

\* one pair of the loop: unreachable, the dry-run count, or the two upserts
IntraEmit(env, c, p, e1, e2, a) ==
    LET found == AStar(env, <<e1.x, e1.y>>, <<e2.x, e2.y>>)
        blob == WaypointBlob(found.path, a.store_paths)
    IN IF e1.x = e2.x /\ e1.y = e2.y THEN <<>>
       ELSE IF found.status # "found" THEN <<>>
       ELSE IF a.dry_run THEN << [t |-> "count", cnt |-> 2] >>
       ELSE << [t |-> "upF", cx |-> c[1], cz |-> c[2], plane |-> p, from |-> e1.id,
                to |-> e2.id, cost |-> found.cost, blob |-> blob, cnt |-> 0],
               [t |-> "upF", cx |-> c[1], cz |-> c[2], plane |-> p, from |-> e2.id,
                to |-> e1.id, cost |-> found.cost, blob |-> blob, cnt |-> 2] >>

\* the loop over the pairs of entrances of one chunk+plane
IntraLoop(env, c, p, es, prs, a) ==
    Concat([k \in 1..Len(prs) |-> IntraEmit(env, c, p, es[prs[k][1]], es[prs[k][2]], a)])

\* one chunk+plane with its entrances es: nothing at all when it has none
IntraOver(w, c, p, es, a) ==
    IF es = <<>> THEN <<>>
    ELSE (IF ShouldDelete(a.recompute, a.dry_run)
          THEN << [t |-> "delF", cx |-> c[1], cz |-> c[2], plane |-> p, cnt |-> 0] >>
          ELSE <<>>)
         \o IntraLoop(MakeEnv(w, c, p), c, p, es, Pairs(Len(es)), a)

\* the statements of one chunk+plane, its entrances read ORDER BY entrance_id
IntraChunkPlane(w, db, c, p, a) ==
    IntraOver(w, c, p, SortIds({e \in db.ent : e.cx = c[1] /\ e.cz = c[2] /\ e.plane = p}), a)

\* the loop over the planes of one chunk
IntraPlanes(w, db, c, ps, a) ==
    Concat([j \in 1..Len(ps) |-> IntraChunkPlane(w, db, c, ps[j], a)])

\* the loop over the chunks of the scope
IntraChunks(w, db, cs, a) ==
    Concat([i \in 1..Len(cs) |-> IntraPlanes(w, db, cs[i], PlanesForChunk(w, cs[i], a.planes), a)])

\* intra_connector.run: the statements between its BEGIN IMMEDIATE and its COMMIT
IntraStmts(w, db, a) == IntraChunks(w, db, ChunksInRange(w, a.cr), a)


-----------------------------------------------------------------------------
(* Running the phases *)

PhaseStmts(ph, w, db, a) ==
    CASE ph = "D" -> EntranceStmts(w, a)
      [] ph = "E" -> InterStmts(w, db, a)
      [] ph = "F" -> IntraStmts(w, db, a)

\* every statement applied and the "created" total, as run() leaves them
Finish(db, stmts) ==
    [db |-> ApplyPrefix(db, stmts, Len(stmts)), created |-> CreatedOf(stmts, Len(stmts))]

\* a phase's run() returning normally
RunPhase(ph, w, db, a) == Finish(db, PhaseStmts(ph, w, db, a))

\* what the store holds once run() has raised after k statements. D and E run on an
\* autocommit connection with no transaction; F rolls its transaction back
AfterRaise(ph, db, stmts, k) ==
    IF ph = "F" THEN db ELSE ApplyPrefix(db, stmts, k)

MainF(d, e, f) == [db |-> f.db, created |-> <<d.created, e.created, f.created>>]
MainE(w, a, d, e) == MainF(d, e, RunPhase("F", w, e.db, a))
MainD(w, a, d) == MainE(w, a, d, RunPhase("E", w, d.db, a))

\* populate_clusters.main: D, then E, then F on one connection
RunMain(w, db, a) == MainD(w, a, RunPhase("D", w, db, a))

\* the chunk list of the executor: ORDER BY chunk_x, chunk_z
ListChunks(w, cr) == SortTiles({c \in ChunkSet(w) : InRange(c, cr)})

\* the tight chunk_range the executor passes for one chunk
TightRange(c) == <<Some(c[1]), Some(c[1]), Some(c[2]), Some(c[2])>>

ExecSeqStep(ph, w, a, cs, r, rest) ==
    [db |-> rest.db, created |-> r.created + rest.created]

\* execute_phase without a pool: one run() per chunk, in order
RECURSIVE ExecSequential(_, _, _, _, _)
ExecSeqNext(ph, w, a, cs, r) ==
    ExecSeqStep(ph, w, a, cs, r, ExecSequential(ph, w, r.db, a, Tail(cs)))
ExecSequential(ph, w, db, a, cs) ==
    IF cs = <<>> THEN [db |-> db, created |-> 0]
    ELSE ExecSeqNext(ph, w, a, cs, RunPhase(ph, w, db, [a EXCEPT !.cr = TightRange(Head(cs))]))

-----------------------------------------------------------------------------
(* The worlds and arguments the model draws from *)

DefaultPolicy == [diag |-> 1, corner |-> 0, r |-> 0]

\* two chunks side by side; the straight way between the two east entrances of the
\* west chunk is blocked, the way round inside the chunk is longer than a way outside
WorldDetour ==
    [chunks |-> << <<0, 0>>, <<1, 0>> >>, size |-> 3, blocked |-> {<<1, 1>>, <<2, 1>>},
     noflag |-> {}, policy |-> DefaultPolicy, jpsTables |-> TRUE, jps |-> <<>>]

\* two chunks one above the other, a blocked tile and two doors: tile (0,2) above the
\* border and tile (1,1) below it have top = false
WorldDoor ==
    [chunks |-> << <<0, 0>>, <<0, 1>> >>, size |-> 2, blocked |-> {<<1, 3>>},
     noflag |-> {<<0, 2, "top">>, <<1, 1, "top">>},
     policy |-> DefaultPolicy, jpsTables |-> TRUE, jps |-> <<>>]

Worlds == {WorldDetour, WorldDoor}

AllRange == <<None, None, None, None>>

Scopes(w) == {AllRange} \cup {TightRange(c) : c \in ChunkSet(w)}

PlaneArgs == {[all |-> TRUE, list |-> <<>>]}

Args(w) ==
    [cr : Scopes(w), planes : PlaneArgs, recompute : BOOLEAN, dry_run : BOOLEAN,
     store_paths : BOOLEAN]

IdsBounded(db) == \A r \in db.ent : r.id <= MaxId

NoSearch == [status |-> "idle"]
NoPool == [active |-> FALSE]
\* no DbContext constructed
NoCtx == [pc |-> "none"]

\* no invocation recorded yet, n invocations made
NoCall(n) == [op |-> "none", n |-> n]

-----------------------------------------------------------------------------
(* The specification of the pipeline *)

Init ==
    /\ world \in Worlds
    /\ store = EmptyStore
    /\ last = NoCall(0)
    /\ pool = NoPool
    /\ search = NoSearch
    /\ ctx = NoCtx

\* a call may start: nothing is recorded yet and fewer than most calls were made
IdleWithin(most) == last.op = "none" /\ last.n < most /\ ~pool.active

Idle == IdleWithin(MaxCalls)

\* an invocation returns or raises and leaves the store as db. The run either goes
\* on, or records this invocation (arguments, store before, result) and ends
Leave(op, ph, a, db, created) ==
    /\ IdsBounded(db)
    /\ store' = db
    /\ \/ last' = NoCall(last.n + 1)
       \/ last' = [op |-> op, n |-> last.n + 1, ph |-> ph, a |-> a, pre |-> store,
                   created |-> created]
    /\ UNCHANGED <<ctx, world, pool, search>>

Return(op, ph, a, r) == Leave(op, ph, a, r.db, r.created)

\* one phase's run() called on its own and returning normally
Run(ph, a) ==
    /\ Idle
    /\ (ph \in {"D", "E"} => ~a.store_paths)
    /\ Return("run", ph, a, RunPhase(ph, world, store, a))

RaiseAt(ph, a, stmts) ==
    \E k \in 0..(Len(stmts) - 1) :
        /\ IdsBounded(ApplyPrefix(store, stmts, k + 1))
        /\ Leave("raise", ph, a, AfterRaise(ph, store, stmts, k), 0)

\* one phase's run() raising at one of its statements, after k of them were executed
Raise(ph, a) ==
    /\ Idle
    /\ (ph \in {"D", "E"} => ~a.store_paths)
    /\ RaiseAt(ph, a, PhaseStmts(ph, world, store, a))

\* the whole pipeline returning normally
MainWithin(a, most) ==
    /\ IdleWithin(most)
    /\ Return("main", "-", a, RunMain(world, store, a))

Main(a) == MainWithin(a, MaxCalls)

Phases == {"D", "E", "F"}

Next ==
    \/ \E ph \in Phases, a \in Args(world) : Run(ph, a)
    \/ \E ph \in Phases, a \in Args(world) : Raise(ph, a)
    \/ \E a \in Args(world) : Main(a)

Spec == Init /\ [][Next]_vars



-----------------------------------------------------------------------------
(* The specification of one search: _a_star on one chunk, a pass of its loop a step *)

\* one chunk of 3 x 3 tiles
SearchChunk == <<0, 0>>
SearchGrid(blocked, policy, jps) ==
    [chunks |-> <<SearchChunk>>, size |-> 3, blocked |-> blocked, noflag |-> {},
     policy |-> policy, jpsTables |-> TRUE, jps |-> jps]

SearchPolicies ==
    {DefaultPolicy, [diag |-> 0, corner |-> 0, r |-> 0], [diag |-> 1, corner |-> 1, r |-> 0],
     [diag |-> 1, corner |-> 0, r |-> 1]}

AllDirs == Cardinals \o Diagonals

\* the last tile of the straight run from t in direction d, None when there is no step
RECURSIVE RunEnd(_, _, _, _)
RunEnd(env, t, d, moved) ==
    LET n == <<t[1] + d[1], t[2] + d[2]>>
        nbrs == Neighbors(env, t[1], t[2], env.plane)
    IN IF \E i \in 1..Len(nbrs) : nbrs[i] = n
       THEN RunEnd(env, n, d, TRUE)
       ELSE IF moved THEN Some(t) ELSE None

\* a populated jps_jump table: for every tile and direction the end of the straight run
WallJumps(w) ==
    LET env == MakeEnv(w, SearchChunk, 0)
        ts == SortTiles(ChunkTiles(w, SearchChunk))
    IN Concat([i \in 1..Len(ts) |->
          [k \in 1..Len(AllDirs) |->
              LET e == RunEnd(env, ts[i], AllDirs[k], FALSE)
              IN [x |-> ts[i][1], y |-> ts[i][2], plane |-> 0, dir |-> k,
                  next |-> IF e = None THEN None ELSE e[1]]]])

BlockedSets ==
    {B \in SUBSET ChunkTiles(SearchGrid({}, DefaultPolicy, <<>>), SearchChunk) :
        Cardinality(B) <= MaxBlocked}

\* a jps_jump table out of date with the tiles: for every tile and every direction
\* (dir 1..4), and once more (dir 5..8), the tile next to it in the chunk on the
\* cardinal axis, walkable or not
StaleJumps(w) ==
    LET ts == SortTiles(ChunkTiles(w, SearchChunk))
    IN Concat([i \in 1..Len(ts) |->
          [k \in 1..(2 * Len(Cardinals)) |->
              LET d == Cardinals[((k - 1) % Len(Cardinals)) + 1]
                  n == <<ts[i][1] + d[1], ts[i][2] + d[2]>>
              IN [x |-> ts[i][1], y |-> ts[i][2], plane |-> 0, dir |-> k,
                  next |-> IF n \in ChunkTiles(w, SearchChunk) THEN n ELSE None]]])

\* the policy that lets a step cut a corner
CornerCutPolicy == [diag |-> 1, corner |-> 1, r |-> 0]

SearchWorlds ==
    {SearchGrid(B, pol, <<>>) : B \in BlockedSets, pol \in SearchPolicies}
    \cup {SearchGrid(B, pol, WallJumps(SearchGrid(B, pol, <<>>))) :
            B \in BlockedSets, pol \in SearchPolicies}
    \cup {SearchGrid(B, CornerCutPolicy, StaleJumps(SearchGrid(B, CornerCutPolicy, <<>>))) :
            B \in BlockedSets}

SearchEnv == MakeEnv(world, SearchChunk, 0)

\* the tiles _a_star is called with: the tiles of the chunk, blocked or not, and
\* one tile outside the bounds on either side
SearchEnds == ChunkTiles(world, SearchChunk) \cup {<<-1, 1>>, <<3, 1>>}

\* the planes of a goal; the start is on the plane of the chunk+plane being processed
SearchPlanes == {0, 1}

\* _a_star up to its loop: None at once when start and goal differ in plane
AStarEnter(env, start, goal, gp) ==
    IF env.plane # gp
    THEN [AStarStart(env, start, goal) EXCEPT !.status = "none", !.open = <<>>]
    ELSE AStarStart(env, start, goal)

InitSearch ==
    /\ world \in SearchWorlds
    /\ store = EmptyStore
    /\ last = NoCall(0)
    /\ pool = NoPool
    /\ search = NoSearch
    /\ ctx = NoCtx

\* _a_star is called for a pair of entrance tiles
SearchBegin(start, goal, gp) ==
    /\ search.status = "idle"
    /\ start # goal
    /\ search' = AStarEnter(SearchEnv, start, goal, gp)
                    @@ [start |-> start, goal |-> goal, gp |-> gp]
    /\ UNCHANGED <<ctx, world, store, last, pool>>

\* one pass of the while loop
SearchIter ==
    /\ search.status = "run"
    /\ search' = AStarIter(SearchEnv, search.goal, search)
    /\ UNCHANGED <<ctx, world, store, last, pool>>

NextSearch ==
    \/ \E start, goal \in SearchEnds, gp \in SearchPlanes : SearchBegin(start, goal, gp)
    \/ SearchIter

SpecSearch == InitSearch /\ [][NextSearch]_vars

\* only whole pipeline runs
NextMain == \E a \in Args(world) : MainWithin(a, MaxRuns)

SpecMain == Init /\ [][NextMain]_vars

-----------------------------------------------------------------------------
(* The specification of the executor: the three phases, each through execute_phase *)

\* the three phases one after the other without a pool: workers <= 1
ExecSeqF(w, a, cs, e) == ExecSequential("F", w, e.db, a, cs).db
ExecSeqE(w, a, cs, d) == ExecSeqF(w, a, cs, ExecSequential("E", w, d.db, a, cs))
ExecSeqPipeline(w, db, a) ==
    ExecSeqE(w, a, ListChunks(w, a.cr), ExecSequential("D", w, db, a, ListChunks(w, a.cr)))

\* the executor is done with the three phases: the run goes on or is recorded and ends
ExecLeave(a, workers, pre, db) ==
    /\ IdsBounded(db)
    /\ store' = db
    /\ pool' = NoPool
    /\ \/ last' = NoCall(last.n + 1)
       \/ last' = [op |-> "exec", n |-> last.n + 1, ph |-> "-", a |-> a, pre |-> pre,
                   created |-> 0, workers |-> workers]
    /\ UNCHANGED <<ctx, world, search>>

\* execute_phase with workers <= 1: every chunk in the calling process, in order
ExecInline(a, workers) ==
    /\ Idle
    /\ workers <= 1
    /\ ~a.store_paths
    /\ ExecLeave(a, workers, store, ExecSeqPipeline(world, store, a))

\* execute_phase with workers > 1 submits one task per chunk to a pool
ExecStart(a, workers) ==
    /\ Idle
    /\ workers > 1
    /\ ~a.store_paths
    /\ ListChunks(world, a.cr) # <<>>
    /\ pool' = [active |-> TRUE, a |-> a, workers |-> workers, ph |-> "D", pre |-> store,
                queue |-> ListChunks(world, a.cr), running |-> <<>>]
    /\ UNCHANGED <<ctx, world, store, last, search>>

\* a free worker takes the next task: run() opens its connection and reads its scope
TaskBeginWith(stmts) ==
    /\ pool' = [pool EXCEPT !.queue = Tail(@),
                            !.running = IF stmts = <<>> THEN @ ELSE Append(@, stmts)]
    /\ UNCHANGED <<ctx, world, store, last, search>>

TaskBegin ==
    /\ pool.active
    /\ pool.queue # <<>>
    /\ Len(pool.running) < pool.workers
    /\ TaskBeginWith(PhaseStmts(pool.ph, world, store,
                                [pool.a EXCEPT !.cr = TightRange(Head(pool.queue))]))

\* a running task executes its next statement; the statements of F are one transaction
TaskStep(i) ==
    /\ pool.active
    /\ i \in 1..Len(pool.running)
    /\ LET stmts == pool.running[i]
           k == IF pool.ph = "F" THEN Len(stmts) ELSE 1
           rest == SubSeq(stmts, k + 1, Len(stmts))
       IN /\ IdsBounded(ApplyPrefix(store, stmts, k))
          /\ store' = ApplyPrefix(store, stmts, k)
          /\ pool' = [pool EXCEPT !.running =
                         IF rest = <<>> THEN RemoveAt(@, i) ELSE [@ EXCEPT ![i] = rest]]
    /\ UNCHANGED <<ctx, world, last, search>>

\* every future of the phase is done: the next phase starts, or the executor returns
PhaseEnd ==
    /\ pool.active
    /\ pool.queue = <<>> /\ pool.running = <<>>
    /\ \/ /\ pool.ph # "F"
          /\ pool' = [pool EXCEPT !.ph = IF pool.ph = "D" THEN "E" ELSE "F",
                                  !.queue = ListChunks(world, pool.a.cr)]
          /\ UNCHANGED <<ctx, world, store, last, search>>
       \/ /\ pool.ph = "F"
          /\ ExecLeave(pool.a, pool.workers, pool.pre, store)

NextExec ==
    \/ \E a \in Args(world), workers \in 1..MaxWorkers : ExecInline(a, workers)
    \/ \E a \in Args(world), workers \in 1..MaxWorkers : ExecStart(a, workers)
    \/ TaskBegin
    \/ \E i \in 1..MaxWorkers : TaskStep(i)
    \/ PhaseEnd

SpecExec == Init /\ [][NextExec]_vars

-----------------------------------------------------------------------------
(* Views of the output tables that do not depend on the entrance_id values *)

\* the tile an entrance id stands for; <<>> when no entrance row has the id
TileOfId(ent, id) ==
    IF \E r \in ent : r.id = id
    THEN LET r == CHOOSE q \in ent : q.id = id IN <<r.cx, r.cz, r.plane, r.x, r.y>>
    ELSE <<>>

EntView(ent) == {<<r.cx, r.cz, r.plane, r.x, r.y, r.dir>> : r \in ent}

InterView(db) ==
    {<<TileOfId(db.ent, r.from), TileOfId(db.ent, r.to), r.cost>> : r \in db.inter}

IntraView(db) ==
    {<<r.cx, r.cz, r.plane, TileOfId(db.ent, r.from), TileOfId(db.ent, r.to), r.cost, r.blob>> :
        r \in db.intra}

StoreView(db) == [ent |-> EntView(db.ent), inter |-> InterView(db), intra |-> IntraView(db)]

\* the output tables with every row of a scope taken out: its entrances, the
\* inter-edges with an end among them, the intra rows of its chunks
Cleared(db, cr, planes) ==
    [ent |-> {r \in db.ent : r.id \notin ScopeIds(db.ent, cr, planes)},
     inter |-> {r \in db.inter : r.from \notin ScopeIds(db.ent, cr, planes)
                                 /\ r.to \notin ScopeIds(db.ent, cr, planes)},
     intra |-> {r \in db.intra : ~(InRange(<<r.cx, r.cz>>, cr) /\ PlaneSelected(r.plane, planes))}]

DryRun(c) == c.op \in {"run", "main"} /\ c.a.dry_run

-----------------------------------------------------------------------------
(* C1 *)

\* C1: a completed pipeline run with recompute over a scope leaves the rows that the
\* same run leaves when it starts from output tables that are empty for that scope
\* (rows compared by tiles, not by entrance_id values)
RecomputeAsFromEmpty ==
    (last.op = "main" /\ last.a.recompute /\ ~last.a.dry_run)
        => StoreView(store)
           = StoreView(RunMain(world, Cleared(last.pre, last.a.cr, last.a.planes), last.a).db)

-----------------------------------------------------------------------------
(* C2 *)

\* C2: after completed pipeline runs the inter-edges are symmetric: a row (a, b, c)
\* is there exactly when the row (b, a, c) is
InterSymmetric ==
    \A r \in store.inter : [from |-> r.to, to |-> r.from, cost |-> r.cost] \in store.inter

-----------------------------------------------------------------------------
(* C3 *)

\* C3: the intra rows are symmetric: a row (chunk, plane, a, b) with cost c is there
\* exactly when a row (chunk, plane, b, a) with cost c is
IntraSymmetric ==
    \A r \in store.intra :
        \E q \in store.intra :
            /\ q.cx = r.cx /\ q.cz = r.cz /\ q.plane = r.plane
            /\ q.from = r.to /\ q.to = r.from /\ q.cost = r.cost

\* an Intra-Connector run of its own has just written rows over rows of an earlier run
IntraWritten ==
    /\ last.op = "run" /\ last.ph = "F" /\ ~last.a.dry_run
    /\ last.created > 0
    /\ last.pre.intra # {}
    /\ store.intra # last.pre.intra

-----------------------------------------------------------------------------
(* C4 *)

\* C4: after a run of Entrance Discovery over a scope, a second run over the same scope
\* (with or without recompute) leaves the same (chunk_x, chunk_z, plane, x, y,
\* neighbor_dir) rows as the first run left
EntranceIdempotent ==
    (last.op = "run" /\ last.ph = "D" /\ ~last.a.dry_run)
        => \A rc \in BOOLEAN :
              EntView(RunPhase("D", world, store, [last.a EXCEPT !.recompute = rc]).db.ent)
              = EntView(store.ent)

\* Entrance Discovery has run over a scope whose entrances an earlier run had written
EntranceRunTwice ==
    /\ last.op = "run" /\ last.ph = "D" /\ ~last.a.dry_run
    /\ last.created > 0
    /\ ScopeIds(last.pre.ent, last.a.cr, last.a.planes) # {}
    /\ EntView(store.ent) = EntView(last.pre.ent)

-----------------------------------------------------------------------------
(* C5 *)

OnlyCounts(stmts) == \A i \in 1..Len(stmts) : stmts[i].t = "count"

\* C5: a dry-run, of one phase or of the pipeline, with any other flags, issues no
\* INSERT, UPDATE or DELETE and leaves every table as it was
DryRunPure ==
    DryRun(last)
        => /\ store = last.pre
           /\ \A ph \in Phases : OnlyCounts(PhaseStmts(ph, world, last.pre, last.a))

\* a dry-run with recompute has counted rows over tables that hold rows of its scope
DryRunOverRows ==
    /\ last.op = "run" /\ last.a.dry_run /\ last.a.recompute
    /\ last.created > 0
    /\ last.pre.ent # {} /\ last.pre.inter # {} /\ last.pre.intra # {}

-----------------------------------------------------------------------------
(* C6 *)

\* C6: the counts a dry-run of the pipeline returns are the counts the same
\* invocation returns as a real run from the same tables
DryCountsAsReal ==
    (last.op = "main" /\ last.a.dry_run)
        => last.created = RunMain(world, last.pre, [last.a EXCEPT !.dry_run = FALSE]).created

-----------------------------------------------------------------------------
(* C10 *)

\* C10: when a phase raises part-way, the output tables hold what they held when the
\* phase started
RaiseLeavesNothing == last.op = "raise" => store = last.pre

-----------------------------------------------------------------------------
(* C8 *)

\* C8: every waypoint of every stored path_blob lies inside the bounds of the chunk
\* the row names
WaypointsInBounds ==
    \A r \in store.intra :
        r.blob # None =>
            \A i \in 1..Len(r.blob[1]) :
                InBounds(r.blob[1][i][1], r.blob[1][i][2], ChunkBounds(<<r.cx, r.cz>>, world.size))

\* a stored path turns inside its chunk, on its way round blocked tiles
WaypointsStored ==
    \E r \in store.intra : r.blob # None /\ Len(r.blob[1]) > 2 /\ r.cost > 2

-----------------------------------------------------------------------------
(* C7 *)

\* the tiles within k Neighbor Policy steps of the tiles of S, inside the bounds
RECURSIVE Ball(_, _, _)
Ball(env, S, k) ==
    IF k = 0 THEN S
    ELSE LET B == Ball(env, S, k - 1)
         IN B \cup {n \in env.local :
                      \E t \in B : \E i \in 1..Len(Neighbors(env, t[1], t[2], env.plane)) :
                          Neighbors(env, t[1], t[2], env.plane)[i] = n}

\* the reference search: the least number of steps from start to goal, -1 when none
RefCost(env, start, goal) ==
    LET N == Cardinality(env.local)
    IN IF goal \in Ball(env, {start}, N)
       THEN CHOOSE k \in 0..N : goal \in Ball(env, {start}, k)
                                 /\ \A j \in 0..(k - 1) : goal \notin Ball(env, {start}, j)
       ELSE -1

\* C7: the cost _a_star returns for a pair of entrance tiles is the cost of a shortest
\* path of Neighbor Policy steps inside the chunk bounds
AStarOptimal ==
    search.status = "found" => search.cost = RefCost(SearchEnv, search.start, search.goal)

\* the same, for searches that read no jump rows
AStarOptimalNoJumps ==
    (search.status = "found" /\ world.jps = <<>>)
        => search.cost = RefCost(SearchEnv, search.start, search.goal)

-----------------------------------------------------------------------------
(* C9 *)

\* C9: after the three phases ran through the executor, with any number of workers and
\* any interleaving of their statements, the output tables hold the rows, entrance_id
\* values included, that the run with one worker leaves from the same store
WorkersIndependent ==
    last.op = "exec" => store = ExecSeqPipeline(world, last.pre, last.a)

-----------------------------------------------------------------------------
(* C11 *)

\* the same grid and policy with no jump rows
WithoutJumps(w) == [w EXCEPT !.jps = <<>>]

\* C11: a search that reads populated jump rows ends as the search on the same grid
\* with empty jump tables ends: a row for the same pairs, with the same cost
JpsParity ==
    (search.status \in {"found", "none"} /\ world.jps # <<>>)
        => LET plain == AStar(MakeEnv(WithoutJumps(world), SearchChunk, 0),
                              search.start, search.goal)
           IN /\ plain.status = search.status
              /\ plain.status = "found" => plain.cost = search.cost

-----------------------------------------------------------------------------
(* C12 *)

\* the crossing rule of a direction: flags a of the tile, flags b of the tile across
\* the border, which lies at the tile plus the delta of DIRECTIONS
CrossingRule(w, x, y, p, i) ==
    LET d == DIRECTIONS[i][1]
        ex == x + DIRECTIONS[i][2]
        ey == y + DIRECTIONS[i][3]
    IN CASE d = "N" -> WalkFlag(w, x, y, p, "bottom") /\ WalkFlag(w, ex, ey, p, "top")
         [] d = "S" -> WalkFlag(w, x, y, p, "top") /\ WalkFlag(w, ex, ey, p, "bottom")
         [] d = "E" -> WalkFlag(w, x, y, p, "right") /\ WalkFlag(w, ex, ey, p, "left")
         [] d = "W" -> WalkFlag(w, x, y, p, "left") /\ WalkFlag(w, ex, ey, p, "right")

\* the directions, by index in N, E, S, W, that qualify for a tile of chunk c
Qualifying(w, c, x, y, p) ==
    {i \in 1..Len(DIRECTIONS) :
        /\ DIRECTIONS[i][1] \in DirsOf(x, y, ChunkBounds(c, w.size))
        /\ IsWalkable(w, x + DIRECTIONS[i][2], y + DIRECTIONS[i][3], p)
        /\ CrossingRule(w, x, y, p, i)}

\* the entrance rows keyed by chunk c, plane p and tile t
RowsAt(db, c, p, t) ==
    {r \in db.ent : r.cx = c[1] /\ r.cz = c[2] /\ r.plane = p /\ r.x = t[1] /\ r.y = t[2]}

\* a real D run has returned
DRan == last.op = "run" /\ last.ph = "D" /\ ~last.a.dry_run

\* C12: after a D run every walkable border tile of a chunk in scope has at most one
\* row, the row names the first of N, E, S, W that qualifies for the tile, and a tile
\* with no qualifying direction has no row
EntranceFirstDir ==
    DRan => \A c \in ChunkSet(world) : \A t \in ChunkTiles(world, c) :
                (InRange(c, last.a.cr) /\ IsWalkable(world, t[1], t[2], 0)
                 /\ DirsOf(t[1], t[2], ChunkBounds(c, world.size)) # {})
                    => LET Q == Qualifying(world, c, t[1], t[2], 0)
                           R == RowsAt(store, c, 0, t)
                       IN /\ Cardinality(R) <= 1
                          /\ Q = {} => R = {}
                          /\ \A r \in R : \A i \in Q :
                                (\A j \in Q : i <= j) => r.dir = DIRECTIONS[i][1]

-----------------------------------------------------------------------------
(* C13 *)

\* the entrance rows on the north border of their chunk whose own tile has top = false
ClosedTopRows(w, db) ==
    {r \in db.ent : /\ r.y = ChunkBounds(<<r.cx, r.cz>>, w.size)[4]
                    /\ ~WalkFlag(w, r.x, r.y, r.plane, "top")}

\* C13: after a D run no entrance on the north border of its chunk whose walk_data
\* has top = false is recorded with neighbor_dir N
DoorNotNorth == DRan => \A r \in ClosedTopRows(world, store) : r.dir # "N"

-----------------------------------------------------------------------------
(* C14 *)

\* the tile (x, y) of the entrance with the id, <<>> when there is none
XYOfId(ent, id) ==
    IF \E r \in ent : r.id = id
    THEN LET r == CHOOSE q \in ent : q.id = id IN <<r.x, r.y>>
    ELSE <<>>

\* a real F run with store_paths has returned, and it wrote every intra row there is
FStoredPaths ==
    /\ last.op = "run" /\ last.ph = "F"
    /\ ~last.a.dry_run /\ last.a.store_paths
    /\ last.pre.intra = {}

\* C14: the waypoints of every stored path_blob, of the row i -> j and of the row
\* j -> i alike, start at the tile of entrance_from and end at the tile of entrance_to
WaypointsFromTo ==
    FStoredPaths =>
        \A r \in store.intra :
            r.blob # None =>
                /\ r.blob[1][1] = XYOfId(store.ent, r.from)
                /\ r.blob[1][Len(r.blob[1])] = XYOfId(store.ent, r.to)

-----------------------------------------------------------------------------
(* The specification of the upserts: sequences of the INSERT ... ON CONFLICT
   statements of F and E on a few keys, last.hist the statements executed so far *)

IntraKeys == {<<1, 2>>, <<2, 1>>}
InterKeys == {<<2, 3>>}
UpsertCosts == 1..MaxCost
UpsertBlobs == {None, Some(<< <<0, 1>>, <<1, 1>> >>), Some(<< <<0, 1>>, <<0, 0>>, <<1, 1>> >>)}

InitUpsert ==
    /\ world = WorldDoor
    /\ store = EmptyStore
    /\ last = [op |-> "upsert", hist |-> <<>>, pre |-> EmptyStore]
    /\ pool = NoPool
    /\ search = NoSearch
    /\ ctx = NoCtx

\* conn.execute of one upsert statement s
UpsertStep(s) ==
    /\ Len(last.hist) < MaxUpserts
    /\ store' = ApplyStmt(store, s)
    /\ last' = [op |-> "upsert", hist |-> Append(last.hist, s), pre |-> store]
    /\ UNCHANGED <<ctx, world, pool, search>>

\* the INSERT of intra_connector.run for a key of chunk (0,0), plane 0
IntraUpsert(k, cost, blob) ==
    UpsertStep([t |-> "upF", cx |-> 0, cz |-> 0, plane |-> 0, from |-> k[1], to |-> k[2],
                cost |-> cost, blob |-> blob, cnt |-> 0])

\* the INSERT of inter_connector.run
InterUpsert(k, cost) ==
    UpsertStep([t |-> "upI", from |-> k[1], to |-> k[2], cost |-> cost, cnt |-> 0])

NextUpsert ==
    \/ \E k \in IntraKeys, cost \in UpsertCosts, blob \in UpsertBlobs : IntraUpsert(k, cost, blob)
    \/ \E k \in InterKeys, cost \in UpsertCosts : InterUpsert(k, cost)

SpecUpsert == InitUpsert /\ [][NextUpsert]_vars

-----------------------------------------------------------------------------
(* C15 *)

\* the positions of the history that are upserts of kind t on the key k
UpsertsOn(hist, t, k) ==
    {i \in 1..Len(hist) : hist[i].t = t /\ hist[i].from = k[1] /\ hist[i].to = k[2]}

\* the least of the costs at the positions I
LeastCost(hist, I) == CHOOSE c \in {hist[i].cost : i \in I} : \A i \in I : c <= hist[i].cost

\* the blob of the latest position of I with a blob, NULL when there is none
LatestBlob(hist, I) ==
    LET B == {i \in I : hist[i].blob # None}
    IN IF B = {} THEN None ELSE hist[CHOOSE i \in B : \A j \in B : j <= i].blob

\* the rows of a table with the key k
RowsOn(rows, k) == {r \in rows : r.from = k[1] /\ r.to = k[2]}

\* C15: after any sequence of upserts a key that was written has one row; its cost is
\* the least of the costs upserted on the key; an intra row's blob is the blob of the
\* latest upsert with a blob, NULL when every upsert had none; and no stored cost is
\* higher than it was before the latest upsert
UpsertKeepsMin ==
    last.op = "upsert" =>
        /\ \A k \in IntraKeys :
            LET I == UpsertsOn(last.hist, "upF", k)
            IN IF I = {} THEN RowsOn(store.intra, k) = {}
               ELSE \E r \in store.intra :
                        /\ RowsOn(store.intra, k) = {r}
                        /\ r.cost = LeastCost(last.hist, I)
                        /\ r.blob = LatestBlob(last.hist, I)
        /\ \A k \in InterKeys :
            LET I == UpsertsOn(last.hist, "upI", k)
            IN IF I = {} THEN RowsOn(store.inter, k) = {}
               ELSE \E r \in store.inter :
                        /\ RowsOn(store.inter, k) = {r}
                        /\ r.cost = LeastCost(last.hist, I)
        /\ \A k \in IntraKeys : \A q \in RowsOn(last.pre.intra, k) :
                \A r \in RowsOn(store.intra, k) : r.cost <= q.cost
        /\ \A k \in InterKeys : \A q \in RowsOn(last.pre.inter, k) :
                \A r \in RowsOn(store.inter, k) : r.cost <= q.cost

\* one intra key was upserted three times: a blob at a high cost, then a lower cost
\* with no blob, then a higher cost again
UpsertedOverRow ==
    /\ last.op = "upsert"
    /\ \E k \in IntraKeys :
         \E i, j, l \in UpsertsOn(last.hist, "upF", k) :
            /\ i < j /\ j < l
            /\ last.hist[i].blob # None /\ last.hist[j].blob = None
            /\ last.hist[j].cost < last.hist[i].cost
            /\ last.hist[l].cost > last.hist[j].cost

-----------------------------------------------------------------------------
(* DbContext: SQL texts are sequences of characters *)

UpperLetters == <<"A", "B", "C", "D", "E", "F", "G", "H", "I", "J", "K", "L", "M">>
                \o <<"N", "O", "P", "Q", "R", "S", "T", "U", "V", "W", "X", "Y", "Z">>
LowerLetters == <<"a", "b", "c", "d", "e", "f", "g", "h", "i", "j", "k", "l", "m">>
                \o <<"n", "o", "p", "q", "r", "s", "t", "u", "v", "w", "x", "y", "z">>

\* str.upper on one character
UpperChar(c) ==
    IF \E i \in 1..Len(LowerLetters) : LowerLetters[i] = c
    THEN UpperLetters[CHOOSE i \in 1..Len(LowerLetters) : LowerLetters[i] = c]
    ELSE c

\* str.upper
Upper(s) == [i \in 1..Len(s) |-> UpperChar(s[i])]

Whitespace == {" ", "\t", "\n", "\r"}

\* a strip that leaves the text as it is
KeepLeading(s) == s

\* str.lstrip
RECURSIVE Lstrip(_)
Lstrip(s) == IF s # <<>> /\ Head(s) \in Whitespace THEN Lstrip(Tail(s)) ELSE s

\* str.startswith
StartsWith(s, p) == Len(p) <= Len(s) /\ SubSeq(s, 1, Len(p)) = p

\* the prefixes _assert_safe refuses on a read-only context
WritePrefixes ==
    {<<"I", "N", "S", "E", "R", "T">>,
     <<"U", "P", "D", "A", "T", "E">>,
     <<"D", "E", "L", "E", "T", "E">>,
     <<"R", "E", "P", "L", "A", "C", "E">>,
     <<"C", "R", "E", "A", "T", "E">>,
     <<"D", "R", "O", "P">>,
     <<"A", "L", "T", "E", "R">>,
     <<"V", "A", "C", "U", "U", "M">>,
     <<"P", "R", "A", "G", "M", "A", " ">>}

\* _assert_safe: TRUE when it returns, FALSE when it raises PermissionError
AssertSafe(read_only, sql) ==
    \/ ~read_only
    \/ ~\E p \in WritePrefixes : StartsWith(Upper(Lstrip(sql)), p)

BeginSql == <<"B", "E", "G", "I", "N", " ", "I", "M", "M", "E", "D", "I", "A", "T", "E">>
CommitSql == <<"C", "O", "M", "M", "I", "T">>
RollbackSql == <<"R", "O", "L", "L", "B", "A", "C", "K">>

-----------------------------------------------------------------------------
(* DbContext: errors and the retry loop *)

\* RetryPolicy defaults; the sleep is counted in milliseconds
RetryDefault == 6
InitialSleepMs == 50
Backoff == 2

\* (sqlite3.OperationalError, sqlite3.DatabaseError), by class name
SQLITE_BUSY_ERRS == {"OperationalError", "DatabaseError"}

NoErr == [cls |-> "none", msg |-> <<>>]
PermissionErr == [cls |-> "PermissionError", msg |-> <<"Write", "operation", "attempted">>]

\* what one call of conn.execute may raise
ConnErrors ==
    {[cls |-> "OperationalError", msg |-> <<"database", "is", "locked">>],
     [cls |-> "OperationalError", msg |-> <<"database", "schema", "is", "locked">>],
     [cls |-> "OperationalError", msg |-> <<"database", "table", "is", "locked">>],
     [cls |-> "ValueError", msg |-> <<"database", "is", "locked">>],
     [cls |-> "KeyboardInterrupt", msg |-> <<>>]}

\* pat in msg, word by word
Contains(msg, pat) ==
    \E i \in 1..(Len(msg) - Len(pat) + 1) : SubSeq(msg, i, i + Len(pat) - 1) = pat

\* the except clause catches e and its message names a lock
IsLocked(e) ==
    /\ e.cls \in SQLITE_BUSY_ERRS
    /\ \/ Contains(e.msg, <<"database", "is", "locked">>)
       \/ Contains(e.msg, <<"database", "schema", "is", "locked">>)

\* a loop that allows one retry more before it gives up
GiveUpLate(attempts, max_retries) == attempts > max_retries

\* attempts >= max_retries: the loop re-raises
GiveUp(attempts, max_retries) == attempts >= max_retries

\* "except Exception" catches e
IsException(e) == e.cls # "KeyboardInterrupt"

\* a call of _with_retry about to make its first attempt
NewCall(kind, sql, c) ==
    [st |-> "run", kind |-> kind, sql |-> sql, attempts |-> 0, delay |-> InitialSleepMs,
     tries |-> 0, busy |-> 0, sleeps |-> <<>>, err |-> NoErr,
     pre |-> [in_txn |-> c.in_txn, db |-> c.db]]

NoStmt == [st |-> "none"]

\* what the statement does to the database when conn.execute returns
ConnExecute(db, kind, sql) ==
    CASE kind = "begin"    -> [db EXCEPT !.txn = TRUE, !.saved = db.data]
      [] kind = "commit"   -> [db EXCEPT !.txn = FALSE]
      [] kind = "rollback" -> [db EXCEPT !.txn = FALSE, !.data = db.saved]
      [] OTHER -> IF \E p \in WritePrefixes : StartsWith(Upper(Lstrip(sql)), p) /\ p # <<"V", "A", "C", "U", "U", "M">>
                  THEN [db EXCEPT !.data = @ + 1]
                  ELSE db

\* one pass of the loop of _with_retry in which fn() returns
AttemptOk(c) ==
    [c EXCEPT !.db = ConnExecute(c.db, c.call.kind, c.call.sql),
              !.call.st = "ok", !.call.tries = @ + 1,
              !.ctl = IF c.call.kind \in {"begin", "commit", "rollback"}
                      THEN Append(@, c.call.kind) ELSE @]

\* one pass of the loop of _with_retry in which fn() raises e
AttemptRaise(c, e) ==
    IF IsLocked(e) /\ ~GiveUp(c.call.attempts, c.max_retries)
    THEN [c EXCEPT !.call.tries = @ + 1, !.call.busy = @ + 1,
                   !.call.sleeps = Append(@, c.call.delay),
                   !.call.attempts = @ + 1,
                   !.call.delay = @ * Backoff]
    ELSE [c EXCEPT !.call.tries = @ + 1,
                   !.call.busy = IF IsLocked(e) THEN @ + 1 ELSE @,
                   !.call.st = "raised", !.call.err = e]

-----------------------------------------------------------------------------
(* The specification of the DbContext: one context, its calls one after another,
   each attempt of a statement a step *)

SqlWords ==
    {<<"I", "N", "S", "E", "R", "T">>,
     <<"U", "P", "D", "A", "T", "E">>,
     <<"D", "E", "L", "E", "T", "E">>,
     <<"R", "E", "P", "L", "A", "C", "E">>,
     <<"C", "R", "E", "A", "T", "E">>,
     <<"D", "R", "O", "P">>,
     <<"A", "L", "T", "E", "R">>,
     <<"V", "A", "C", "U", "U", "M">>,
     <<"P", "R", "A", "G", "M", "A">>,
     <<"S", "E", "L", "E", "C", "T">>}

Leads == {<<>>, <<" ", "\n">>}

\* str.lower, to write the inputs in lower case
Lower(s) ==
    [i \in 1..Len(s) |->
        IF \E k \in 1..Len(UpperLetters) : UpperLetters[k] = s[i]
        THEN LowerLetters[CHOOSE k \in 1..Len(UpperLetters) : UpperLetters[k] = s[i]]
        ELSE s[i]]

SqlText(lead, word, lower) == lead \o (IF lower THEN Lower(word) ELSE word) \o <<" ", "t">>

SqlTexts == {SqlText(lead, word, lower) : lead \in Leads, word \in SqlWords, lower \in BOOLEAN}

RetryChoices == {0, 1, RetryDefault}

NewCtx(read_only, max_retries) ==
    [read_only |-> read_only, max_retries |-> max_retries, conn |-> FALSE, in_txn |-> FALSE,
     db |-> [txn |-> FALSE, data |-> 0, saved |-> 0],
     txn |-> "out", call |-> NoStmt, ctl |-> <<>>, exit |-> "none", n |-> 0]

InitDb ==
    /\ world = WorldDoor
    /\ store = EmptyStore
    /\ last = NoCall(0)
    /\ pool = NoPool
    /\ search = NoSearch
    /\ ctx \in {NewCtx(ro, m) : ro \in BOOLEAN, m \in RetryChoices}

\* a new call may start
CtxIdle == ctx.call.st = "none" /\ ctx.n < MaxStmts

\* execute / executemany up to the first attempt: _ensure_conn, _assert_safe
Execute(kind, sql) ==
    /\ CtxIdle
    /\ ctx.txn \in {"out", "body"}
    /\ ctx' = [ctx EXCEPT !.conn = TRUE, !.n = @ + 1,
                          !.call = IF AssertSafe(ctx.read_only, sql)
                                   THEN NewCall(kind, sql, ctx)
                                   ELSE [NewCall(kind, sql, ctx) EXCEPT !.st = "raised",
                                                                        !.err = PermissionErr]]
    /\ UNCHANGED <<world, store, last, pool, search>>

\* one attempt of the statement in _with_retry
Attempt ==
    /\ ctx.call.st = "run"
    /\ \/ ctx' = AttemptOk(ctx)
       \/ \E e \in ConnErrors : ctx' = AttemptRaise(ctx, e)
    /\ UNCHANGED <<world, store, last, pool, search>>

\* transaction() up to the first attempt of BEGIN IMMEDIATE: begin()
Transaction ==
    /\ CtxIdle
    /\ ctx.txn = "out"
    /\ ctx' = IF ~ctx.in_txn
              THEN [ctx EXCEPT !.conn = TRUE, !.n = @ + 1, !.ctl = <<>>, !.exit = "none",
                               !.txn = "enter", !.call = NewCall("begin", BeginSql, ctx)]
              ELSE [ctx EXCEPT !.conn = TRUE, !.n = @ + 1, !.ctl = <<>>, !.exit = "none",
                               !.txn = "body"]
    /\ UNCHANGED <<world, store, last, pool, search>>

\* rollback(), called by the except clause of transaction()
StartRollback(c) ==
    IF c.in_txn
    THEN [c EXCEPT !.txn = "except", !.call = NewCall("rollback", RollbackSql, c)]
    ELSE [c EXCEPT !.txn = "out", !.exit = "exception", !.call = NoStmt]

\* an error e leaves the body of transaction()
LeaveBody(c, e) ==
    IF IsException(e) THEN StartRollback(c)
    ELSE [c EXCEPT !.txn = "out", !.exit = "interrupt", !.call = NoStmt]

\* the body of the with block ends by itself: normally, or with an error that no
\* statement of the context raised
BodyExit(how) ==
    /\ ctx.call.st = "none"
    /\ ctx.txn = "body"
    /\ ctx' = CASE how = "normal" ->
                    IF ctx.in_txn
                    THEN [ctx EXCEPT !.txn = "else", !.call = NewCall("commit", CommitSql, ctx)]
                    ELSE [ctx EXCEPT !.txn = "out", !.exit = "normal"]
                [] how = "exception" -> LeaveBody(ctx, [cls |-> "ValueError", msg |-> <<>>])
                [] how = "interrupt" -> LeaveBody(ctx, [cls |-> "KeyboardInterrupt", msg |-> <<>>])
    /\ UNCHANGED <<world, store, last, pool, search>>

\* the statement has returned or raised: control goes back to its caller
Unwind ==
    /\ ctx.call.st \in {"ok", "raised"}
    /\ ctx' =
        CASE ctx.call.kind \in {"execute", "executemany"} ->
                IF ctx.call.st = "raised" /\ ctx.txn = "body"
                THEN LeaveBody(ctx, ctx.call.err)
                ELSE [ctx EXCEPT !.call = NoStmt]
          [] ctx.call.kind = "begin" ->
                IF ctx.call.st = "ok"
                THEN [ctx EXCEPT !.in_txn = TRUE, !.txn = "body", !.call = NoStmt]
                ELSE [ctx EXCEPT !.txn = "out", !.exit = "failed", !.call = NoStmt]
          [] ctx.call.kind = "commit" ->
                IF ctx.call.st = "ok"
                THEN [ctx EXCEPT !.in_txn = FALSE, !.txn = "out", !.exit = "normal",
                                 !.call = NoStmt]
                ELSE [ctx EXCEPT !.txn = "out", !.exit = "failed", !.call = NoStmt]
          [] ctx.call.kind = "rollback" ->
                IF ctx.call.st = "ok"
                THEN [ctx EXCEPT !.in_txn = FALSE, !.txn = "out", !.exit = "exception",
                                 !.call = NoStmt]
                ELSE [ctx EXCEPT !.txn = "out", !.exit = "failed", !.call = NoStmt]
    /\ UNCHANGED <<world, store, last, pool, search>>

NextDb ==
    \/ \E kind \in {"execute", "executemany"}, sql \in SqlTexts : Execute(kind, sql)
    \/ Attempt
    \/ Transaction
    \/ \E how \in {"normal", "exception", "interrupt"} : BodyExit(how)
    \/ Unwind

SpecDb == InitDb /\ [][NextDb]_vars

-----------------------------------------------------------------------------
(* C16 *)

RECURSIVE Pow2(_)
Pow2(k) == IF k = 0 THEN 1 ELSE 2 * Pow2(k - 1)

\* the sleeps before the retries 1..m: 50 ms * 2^k before retry k + 1
SleepSchedule(m) == [i \in 1..m |-> 50 * Pow2(i - 1)]

\* the error is one of the two lock errors of SQLite
LockError(e) ==
    /\ e.cls = "OperationalError"
    /\ e.msg \in {<<"database", "is", "locked">>, <<"database", "schema", "is", "locked">>}

\* C16: a statement that fails with a lock error at every attempt is attempted
\* max_retries + 1 times, with the sleeps 50 ms * 2^k in between, and then raises the
\* error; a statement whose first error is another one is attempted once and raises
\* without a sleep; a statement that succeeds has taken effect once, at its last
\* attempt; the sleeps made so far are always the first ones of the schedule
RetryBounded ==
    ctx.call.st # "none" =>
        LET c == ctx.call
            m == ctx.max_retries
        IN /\ c.tries <= m + 1
           /\ Len(c.sleeps) <= m
           /\ \A i \in 1..Len(c.sleeps) : c.sleeps[i] = 50 * Pow2(i - 1)
           /\ (c.st = "raised" /\ LockError(c.err))
                => c.busy = c.tries /\ c.tries = m + 1 /\ c.sleeps = SleepSchedule(m)
           /\ (c.st = "raised" /\ ~LockError(c.err) /\ c.busy = 0)
                => c.tries <= 1 /\ c.sleeps = <<>>
           /\ c.st = "ok"
                => /\ c.tries = c.busy + 1
                   /\ ctx.db = ConnExecute(c.pre.db, c.kind, c.sql)
           /\ c.st \in {"run", "raised"} => ctx.db = c.pre.db

\* with the default policy a COMMIT met a lock seven times and raised
RetriedToTheEnd ==
    /\ ctx.call.st = "raised"
    /\ ctx.call.kind = "commit"
    /\ ctx.max_retries = RetryDefault
    /\ ctx.call.tries = RetryDefault + 1
    /\ LockError(ctx.call.err)

-----------------------------------------------------------------------------
(* C17 *)

\* the texts that begin, after leading whitespace and in either case, with the word
TextsOf(word) == {SqlText(lead, word, lower) : lead \in Leads, lower \in BOOLEAN}

WriteVerbs ==
    SqlWords \ {<<"P", "R", "A", "G", "M", "A">>, <<"S", "E", "L", "E", "C", "T">>}

\* C17: on a read-only context execute and executemany of a text that begins with
\* INSERT, UPDATE, DELETE, REPLACE, CREATE, DROP, ALTER or VACUUM raise PermissionError
\* with no attempt on the connection, the database and the transaction flag as they
\* were; a SELECT goes on to the connection
ReadOnlyRefuses ==
    (ctx.call.st # "none" /\ ctx.read_only /\ ctx.call.kind \in {"execute", "executemany"}) =>
        LET c == ctx.call
        IN /\ (\E w \in WriteVerbs : c.sql \in TextsOf(w))
                => /\ c.st = "raised" /\ c.err = PermissionErr
                   /\ c.tries = 0
                   /\ ctx.db = c.pre.db /\ ctx.in_txn = c.pre.in_txn
           /\ c.sql \in TextsOf(<<"S", "E", "L", "E", "C", "T">>)
                => c.err # PermissionErr /\ (c.st = "run" \/ c.tries >= 1)

\* inside a transaction of a read-only context an insert written in lower case after
\* whitespace was refused
LowerInsertRefused ==
    /\ ctx.read_only /\ ctx.in_txn /\ ctx.txn = "body"
    /\ ctx.call.st = "raised" /\ ctx.call.err = PermissionErr
    /\ ctx.call.sql = SqlText(<<" ", "\n">>, <<"I", "N", "S", "E", "R", "T">>, TRUE)

-----------------------------------------------------------------------------
(* C18 *)

\* C18: when transaction() is left and none of its own statements has raised, it has
\* executed BEGIN IMMEDIATE first, then COMMIT once if the body completed, ROLLBACK if
\* the body was left by an exception or an interrupt, and the context is no longer in
\* a transaction
TransactionCloses ==
    ctx.exit \in {"normal", "exception", "interrupt"} =>
        /\ ctx.exit = "normal" => ctx.ctl = <<"begin", "commit">>
        /\ ctx.exit # "normal" => ctx.ctl = <<"begin", "rollback">>
        /\ ~ctx.in_txn
        /\ ~ctx.db.txn

-----------------------------------------------------------------------------
(* The specification of the crossing test: the grid of WorldDoor under every
   assignment of walk_data with at most MaxFlags flags false, and one call of the
   crossing test of D and of E on the same tile and direction *)

FlagKeys == {"top", "bottom", "left", "right"}

AllFlags(w) == {<<t[1], t[2], k>> : t \in UNION {ChunkTiles(w, c) : c \in ChunkSet(w)}, k \in FlagKeys}

\* the subsets of S with at most k elements
RECURSIVE SubsetsUpTo(_, _)
SubsetsUpTo(S, k) ==
    IF k = 0 THEN {{}}
    ELSE SubsetsUpTo(S, k - 1) \cup {G \cup {e} : G \in SubsetsUpTo(S, k - 1), e \in S}

CrossWorlds ==
    {[WorldDoor EXCEPT !.noflag = G] : G \in SubsetsUpTo(AllFlags(WorldDoor), MaxFlags)}

InitCross ==
    /\ world \in CrossWorlds
    /\ store = EmptyStore
    /\ last = NoCall(0)
    /\ pool = NoPool
    /\ search = NoSearch
    /\ ctx = NoCtx

\* _can_cross of entrance_discovery and of inter_connector called on the walkable tile
\* (x, y) for the direction DIRECTIONS[i]
CrossCall(x, y, i) ==
    /\ last.op = "none"
    /\ IsWalkable(world, x, y, 0)
    /\ last' = [op |-> "cross", x |-> x, y |-> y, i |-> i,
                D |-> CanCrossD(world, x, y, 0, DIRECTIONS[i][1]),
                E |-> CanCrossE(world, x, y, 0, DIRECTIONS[i][1])]
    /\ UNCHANGED <<ctx, world, store, pool, search>>

NextCross ==
    \E c \in ChunkSet(world) : \E t \in ChunkTiles(world, c), i \in 1..Len(DIRECTIONS) :
        CrossCall(t[1], t[2], i)

SpecCross == InitCross /\ [][NextCross]_vars

-----------------------------------------------------------------------------
(* C19 *)

\* C19: for every tile, direction and walk_data the crossing test of D and the one of
\* E give the verdict of the rule that reads flags a at the tile and flags b at the
\* external tile, N = (0,+1), E = (+1,0), S = (0,-1), W = (-1,0); so the two agree
CrossingAgrees ==
    last.op = "cross" =>
        /\ last.D = CrossingRule(world, last.x, last.y, 0, last.i)
        /\ last.E = CrossingRule(world, last.x, last.y, 0, last.i)
        /\ last.D = last.E

-----------------------------------------------------------------------------
(* C20 *)

\* the candidates in the order N, E, S, W, NE, SE, SW, NW, N being (x, y+1)
OrderB(x, y) ==
    << <<x, y + 1>>, <<x + 1, y>>, <<x, y - 1>>, <<x - 1, y>>,
       <<x + 1, y + 1>>, <<x + 1, y - 1>>, <<x - 1, y - 1>>, <<x - 1, y + 1>> >>

\* the neighbours of the tile the search expands, as NeighborPolicy.neighbors lists them
NeighborsOfCur == Neighbors(SearchEnv, search.cur[1], search.cur[2], 0)

\* C20: the neighbours of a tile come in the order N, E, S, W, NE, SE, SW, NW of
\* Convention B: the list is that order with the inadmissible candidates left out
NeighborsInOrderB ==
    search.status = "run" =>
        NeighborsOfCur
            = SelectSeq(OrderB(search.cur[1], search.cur[2]),
                        LAMBDA n : \E i \in 1..Len(NeighborsOfCur) : NeighborsOfCur[i] = n)

-----------------------------------------------------------------------------
(* C21 *)

\* the reference: the tile (nx, ny), one step (dx, dy) from (x, y), is admissible
Admissible(w, x, y, dx, dy) ==
    /\ IsWalkable(w, x + dx, y + dy, 0)
    /\ (dx # 0 /\ dy # 0) => w.policy.diag # 0
    /\ (dx # 0 /\ dy # 0 /\ w.policy.corner = 0)
            => IsWalkable(w, x + dx, y, 0) /\ IsWalkable(w, x, y + dy, 0)
    /\ w.policy.r > 0
            => \A ox \in (-w.policy.r)..w.policy.r, oy \in (-w.policy.r)..w.policy.r :
                    IsWalkable(w, x + dx + ox, y + dy + oy, 0)

\* the reference set of neighbours of (x, y)
AdmissibleSet(w, x, y) ==
    {<<x + dx, y + dy>> : <<dx, dy>> \in
        {d \in ((-1)..1) \X ((-1)..1) : d # <<0, 0>> /\ Admissible(w, x, y, d[1], d[2])}}

\* C21: the tiles NeighborPolicy.neighbors returns for the tile the search expands are
\* the reference set: walkable, diagonal only when diagonals are allowed and, without
\* corner cutting, both orthogonal tiles walkable, and for r > 0 the whole square of
\* radius r round the destination walkable
NeighborsAreAdmissible ==
    search.status = "run" =>
        {NeighborsOfCur[i] : i \in 1..Len(NeighborsOfCur)}
            = AdmissibleSet(world, search.cur[1], search.cur[2])

\* with r = 1 a corner tile is expanded: the centre is its one neighbour, the walkable
\* tiles beside it are left out
RadiusLeavesOut ==
    /\ search.status = "run"
    /\ world.policy.r = 1
    /\ NeighborsOfCur = << <<1, 1>> >>
    /\ \E d \in {<<1, 0>>, <<0, 1>>} :
            IsWalkable(world, search.cur[1] + d[1], search.cur[2] + d[2], 0)

-----------------------------------------------------------------------------
(* C22 *)

\* the earliest pushed of the entries of the open heap with the least f
FirstLeast(open) ==
    CHOOSE i \in 1..Len(open) :
        /\ \A j \in 1..Len(open) : open[i].f <= open[j].f
        /\ \A j \in 1..(i - 1) : open[j].f # open[i].f

\* C22: every pass of the loop pops, of the entries of the open heap with the least
\* f, the one that was pushed first
HeapFifoOnTies ==
    [][(search.status = "run" /\ search.open # <<>>)
            => search'.cur = search.open[FirstLeast(search.open)].n]_vars

-----------------------------------------------------------------------------
(* C23 *)

\* the number of entries of the open heap for the node n
EntriesOf(open, n) == Cardinality({i \in 1..Len(open) : open[i].n = n})

\* C23: in every pass of the loop a popped entry whose node is closed is dropped and
\* nothing else changes; a closed node stays closed, gets no new entry in the open
\* heap, and keeps its g value
ExpandOnce ==
    [][(search.status = "run" /\ search.open # <<>>) =>
            /\ search.closed \subseteq search'.closed
            /\ search'.cur \in search.closed
                    => /\ search'.closed = search.closed
                       /\ search'.g = search.g
                       /\ Len(search'.open) = Len(search.open) - 1
            /\ \A n \in search.closed :
                    /\ EntriesOf(search'.open, n) <= EntriesOf(search.open, n)
                    /\ search'.g[n] = search.g[n]]_vars

\* the open heap holds an entry for a node that is closed already
StaleEntry ==
    /\ search.status = "run"
    /\ \E i \in 1..Len(search.open) : search.open[i].n \in search.closed

-----------------------------------------------------------------------------
(* C24 *)

\* the non-null successors jps_jump holds for the tile, in table order
JumpRowsOf(w, x, y) ==
    LET rows == SelectSeq(w.jps, LAMBDA r : r.x = x /\ r.y = y /\ r.plane = 0 /\ r.next # None)
    IN [i \in 1..Len(rows) |-> rows[i].next]

\* the walkable tiles of seq from position i on, each at its first occurrence only
RECURSIVE FirstWalkable(_, _, _)
FirstWalkable(w, seq, i) ==
    IF i > Len(seq) THEN <<>>
    ELSE (IF IsWalkable(w, seq[i][1], seq[i][2], 0) /\ \A j \in 1..(i - 1) : seq[j] # seq[i]
          THEN <<seq[i]>> ELSE <<>>)
         \o FirstWalkable(w, seq, i + 1)

\* what expand_with_jps returns for the tile the search expands
ExpansionOfCur == ExpandWithJps(SearchEnv, search.cur[1], search.cur[2], 0)

\* C24: for a tile with at least one non-null jump row expand_with_jps returns exactly
\* the successors that are walkable, in table order, first occurrences only; for a
\* tile with none it returns the neighbours of the Neighbor Policy
ExpansionIsJumpsOrNeighbors ==
    search.status = "run" =>
        IF JumpRowsOf(world, search.cur[1], search.cur[2]) # <<>>
        THEN ExpansionOfCur
                = FirstWalkable(world, JumpRowsOf(world, search.cur[1], search.cur[2]), 1)
        ELSE ExpansionOfCur = NeighborsOfCur

-----------------------------------------------------------------------------
(* executor._partition *)

\* a slice size that forgets the remainder
SliceSizeFlat(i, base, rem) == base

\* size = base + (1 if i < rem else 0), i counted from 0
SliceSize(i, base, rem) == base + (IF i < rem THEN 1 ELSE 0)

\* the loop of _partition from slice i on, start the position of the next item
RECURSIVE PartitionFrom(_, _, _, _)
PartitionFrom(items, workers, i, start) ==
    IF i >= workers THEN <<>>
    ELSE LET size == SliceSize(i, Len(items) \div workers, Len(items) % workers)
         IN << SubSeq(items, start + 1, start + size) >>
            \o PartitionFrom(items, workers, i + 1, start + size)

\* _partition
Partition(items, workers) ==
    IF workers <= 1 \/ Len(items) = 0 THEN <<items>>
    ELSE PartitionFrom(items, workers, 0, 0)

-----------------------------------------------------------------------------
(* The specification of the pure functions: extract_waypoints applied to a path and
   _partition applied to a chunk list, the input and the result held in last *)

PathTiles == (0..2) \X (0..1)

\* the sequences over S of length at most n
RECURSIVE SeqsUpTo(_, _)
SeqsUpTo(S, n) ==
    IF n = 0 THEN {<<>>}
    ELSE SeqsUpTo(S, n - 1) \cup {Append(q, e) : q \in {r \in SeqsUpTo(S, n - 1) : Len(r) = n - 1}, e \in S}

\* a chunk list of n chunks, as _list_chunks orders them
ChunkList(n) == [i \in 1..n |-> <<i - 1, 0>>]

InitPure ==
    /\ world = WorldDoor
    /\ store = EmptyStore
    /\ last \in {[op |-> "path", path |-> q] : q \in SeqsUpTo(PathTiles, MaxPath)}
            \cup {[op |-> "chunks", items |-> ChunkList(n), workers |-> k] :
                    n \in 0..MaxItems, k \in 0..(MaxWorkers + 1)}
    /\ pool = NoPool
    /\ search = NoSearch
    /\ ctx = NoCtx

\* extract_waypoints(path)
ExtractCall ==
    /\ last.op = "path"
    /\ last' = [op |-> "waypoints", path |-> last.path, out |-> ExtractWaypoints(last.path)]
    /\ UNCHANGED <<ctx, world, store, pool, search>>

\* _partition(items, workers)
PartitionCall ==
    /\ last.op = "chunks"
    /\ last' = [op |-> "parts", items |-> last.items, workers |-> last.workers,
                out |-> Partition(last.items, last.workers)]
    /\ UNCHANGED <<ctx, world, store, pool, search>>

NextPure == ExtractCall \/ PartitionCall

SpecPure == InitPure /\ [][NextPure]_vars

-----------------------------------------------------------------------------
(* C25 *)

Sign(n) == IF n = 0 THEN 0 ELSE IF n > 0 THEN 1 ELSE -1

\* the step from path[i] into path[i + 1] has another sign direction than the step
\* from path[i - 1] into path[i]
TurnsAt(path, i) ==
    <<Sign(path[i + 1][1] - path[i][1]), Sign(path[i + 1][2] - path[i][2])>>
        # <<Sign(path[i][1] - path[i - 1][1]), Sign(path[i][2] - path[i - 1][2])>>

\* the positions 1..Len(path) in order
Positions(path) == [i \in 1..Len(path) |-> i]

\* the first tile, the interior tiles where the path turns, the last tile
TurnTiles(path) ==
    LET keep == SelectSeq(Positions(path),
                    LAMBDA i : i = 1 \/ i = Len(path) \/ TurnsAt(path, i))
    IN [k \in 1..Len(keep) |-> path[keep[k]]]

\* C25: extract_waypoints returns the first tile, the interior tiles at which the sign
\* direction of the step changes, and the last tile, in path order; a path of at most
\* two tiles comes back as it is
WaypointsAreTurns ==
    last.op = "waypoints" =>
        IF Len(last.path) <= 2 THEN last.out = last.path
        ELSE last.out = TurnTiles(last.path)

\* a path of four tiles with one turn: one interior tile kept, one dropped
OneTurnKept ==
    /\ last.op = "waypoints"
    /\ Len(last.path) = 4
    /\ Len(last.out) = 3
    /\ last.out[2] = last.path[3]

-----------------------------------------------------------------------------
(* C26 *)

\* the sum of the lengths of the slices
RECURSIVE TotalLen(_)
TotalLen(parts) == IF parts = <<>> THEN 0 ELSE Len(Head(parts)) + TotalLen(Tail(parts))

\* C26: for workers > 1 and a non-empty list _partition returns workers slices, which
\* put one after the other give the list, the first n mod workers of size
\* floor(n / workers) + 1 and the others of size floor(n / workers); for workers <= 1 or
\* an empty list it returns the whole list as the one slice
PartitionIsBalanced ==
    last.op = "parts" =>
        LET n == Len(last.items)
            k == last.workers
        IN IF k > 1 /\ n > 0
           THEN /\ Len(last.out) = k
                /\ Concat(last.out) = last.items
                /\ \A i \in 1..Len(last.out) :
                        Len(last.out[i]) = (n \div k) + (IF i <= n % k THEN 1 ELSE 0)
           ELSE last.out = <<last.items>>

\* five chunks over three workers: slices of two, two and one chunk
UnevenSlices ==
    /\ last.op = "parts"
    /\ last.workers = 3
    /\ Len(last.items) = 5
    /\ Len(last.out) = 3
    /\ Len(last.out[1]) = 2 /\ Len(last.out[3]) = 1

-----------------------------------------------------------------------------
(* The specification of re-runs: phases called again on a store that earlier
   invocations, finished or not, have filled *)

RerunReturn(ph, a) ==
    /\ IdleWithin(MaxReruns)
    /\ (ph \in {"D", "E"} => ~a.store_paths)
    /\ Return("run", ph, a, RunPhase(ph, world, store, a))

RerunRaise(ph, a) ==
    /\ IdleWithin(MaxReruns)
    /\ (ph \in {"D", "E"} => ~a.store_paths)
    /\ RaiseAt(ph, a, PhaseStmts(ph, world, store, a))

RerunMain(a) == MainWithin(a, MaxReruns)

NextRerun ==
    \/ \E ph \in Phases, a \in Args(world) : RerunReturn(ph, a)
    \/ \E ph \in Phases, a \in Args(world) : RerunRaise(ph, a)
    \/ \E a \in Args(world) : RerunMain(a)

SpecRerun == Init /\ [][NextRerun]_vars

-----------------------------------------------------------------------------
(* C27 *)

\* the (chunk, plane) pairs a run with arguments a goes through
ProcessedScope(w, a) ==
    {cp \in ChunkSet(w) \X {0} :
        /\ InRange(cp[1], a.cr)
        /\ \E j \in 1..Len(PlanesForChunk(w, cp[1], a.planes)) :
               PlanesForChunk(w, cp[1], a.planes)[j] = cp[2]}

\* the store without the intra rows of the (chunk, plane) pairs of the scope
ScopeCleared(w, db, a) ==
    [db EXCEPT !.intra = {r \in db.intra : <<<<r.cx, r.cz>>, r.plane>> \notin ProcessedScope(w, a)}]

\* C27: after an Intra-Connector run with recompute and without dry_run the intra
\* table is what the run writes on a store whose intra rows of every (chunk, plane)
\* in scope were deleted first: no row of an earlier run is left for any of them,
\* whether or not the (chunk, plane) has entrances now
RecomputeLeavesNoStaleIntra ==
    (last.op = "run" /\ last.ph = "F" /\ last.a.recompute /\ ~last.a.dry_run)
        => store.intra = RunPhase("F", world, ScopeCleared(world, last.pre, last.a), last.a).db.intra

-----------------------------------------------------------------------------
(* C28 *)

\* the two edges the Inter-Connector writes for entrance e, <<>> when e has no
\* qualifying pair
PairEdges(w, ent, e) ==
    LET st == InterEmit(w, ent, e, FALSE)
    IN {[from |-> st[i].from, to |-> st[i].to, cost |-> st[i].cost] : i \in 1..Len(st)}

\* C28: once every worker of a pooled run with recompute has finished, the inter
\* table holds both directions of every qualifying pair whose entrances lie in the
\* scope, whatever the order in which the workers' deletes and upserts were executed
PoolKeepsBothDirections ==
    (last.op = "exec" /\ last.workers > 1 /\ last.a.recompute /\ ~last.a.dry_run)
        => \A e \in store.ent :
              (/\ e.id \in ScopeIds(store.ent, last.a.cr, last.a.planes)
               /\ \A r \in PairEdges(world, store.ent, e) :
                     {r.from, r.to} \subseteq ScopeIds(store.ent, last.a.cr, last.a.planes))
              => PairEdges(world, store.ent, e) \subseteq store.inter

\* one worker of the Inter-Connector phase has finished, the other has executed its
\* scope delete and not yet all its upserts, and an edge of a qualifying pair, which
\* the finished worker wrote, is not in the table
DeleteAfterNeighbourWrote ==
    /\ pool.active /\ pool.ph = "E" /\ pool.a.recompute /\ ~pool.a.dry_run
    /\ pool.queue = <<>> /\ Len(pool.running) = 1
    /\ pool.running[1][1].t = "upI"
    /\ \E e \in store.ent :
          /\ PairEdges(world, store.ent, e) # {}
          /\ ~(PairEdges(world, store.ent, e) \subseteq store.inter)
          /\ \A r \in PairEdges(world, store.ent, e) :
                {r.from, r.to} \subseteq ScopeIds(store.ent, pool.a.cr, pool.a.planes)

-----------------------------------------------------------------------------
(* C29 *)

\* the tiles the expansion of tile t returns
ExpansionOf(env, t) ==
    LET ex == ExpandWithJps(env, t[1], t[2], env.plane) IN {ex[i] : i \in 1..Len(ex)}

\* the tiles inside the bounds that a chain of expansions leads to from the tiles of
\* front, seen being the tiles already found
RECURSIVE ReachFrom(_, _, _)
ReachFrom(env, front, seen) ==
    IF front = {} THEN seen
    ELSE LET nxt == {n \in UNION {ExpansionOf(env, t) : t \in front} :
                        InBounds(n[1], n[2], env.bounds)} \ seen
         IN ReachFrom(env, nxt, seen \cup nxt)

\* the sum of the Chebyshev distances of the consecutive tiles of a path
RECURSIVE PathCost(_)
PathCost(path) ==
    IF Len(path) <= 1 THEN 0
    ELSE ChebyshevCost(path[1][1], path[1][2], path[2][1], path[2][2]) + PathCost(Tail(path))

\* a start or goal _a_star refuses: planes differ, outside the bounds, not walkable
BadEnds(env, s) ==
    \/ s.gp # env.plane
    \/ ~InBounds(s.start[1], s.start[2], env.bounds)
    \/ ~InBounds(s.goal[1], s.goal[2], env.bounds)
    \/ ~IsWalkable(env.w, s.start[1], s.start[2], env.plane)
    \/ ~IsWalkable(env.w, s.goal[1], s.goal[2], env.plane)

\* C29: a path _a_star returns starts at the start, ends at the goal, stays inside
\* the chunk bounds, takes every step to a tile the expansion of the tile before
\* returns, and its cost is the sum of the Chebyshev distances of its steps; with a
\* start or goal on another plane, outside the bounds or not walkable, or a goal no
\* chain of expansions reaches, _a_star returns no path
AStarPathIsValid ==
    /\ search.status = "found" =>
          /\ Len(search.path) >= 1
          /\ search.path[1] = search.start
          /\ search.path[Len(search.path)] = search.goal
          /\ \A i \in 1..Len(search.path) :
                InBounds(search.path[i][1], search.path[i][2], SearchEnv.bounds)
          /\ \A i \in 1..(Len(search.path) - 1) :
                search.path[i + 1] \in ExpansionOf(SearchEnv, search.path[i])
          /\ search.cost = PathCost(search.path)
    /\ (search.status \in {"run", "found", "none"} /\ BadEnds(SearchEnv, search)) =>
          search.status = "none" /\ search.open = <<>> /\ search.closed = {}
    /\ (search.status \in {"run", "found", "none"} /\ ~BadEnds(SearchEnv, search)
          /\ search.goal \notin ReachFrom(SearchEnv, {search.start}, {search.start})) =>
          search.status # "found"

\* a path of three tiles or more was returned in a chunk with a blocked tile
LongPathFound ==
    /\ search.status = "found"
    /\ Len(search.path) >= 3
    /\ world.blocked # {}

\* a search between two walkable tiles of the chunk ended without a path
UnreachableGoal ==
    /\ search.status = "none"
    /\ ~BadEnds(SearchEnv, search)
    /\ search.closed # {}

-----------------------------------------------------------------------------
(* The specification of nested transaction() blocks on one DbContext: a block
   entered, a statement executed, a block left normally or by an exception; every
   statement, BEGIN IMMEDIATE, COMMIT and ROLLBACK included, succeeds at once *)

\* what other connections see: the data as of the last commit
Durable(db) == IF db.txn THEN db.saved ELSE db.data

\* begin(): BEGIN IMMEDIATE only when the context is not in a transaction
BeginOn(c) ==
    IF ~c.in_txn
    THEN [c EXCEPT !.db = ConnExecute(c.db, "begin", BeginSql), !.in_txn = TRUE]
    ELSE c

\* commit(): COMMIT only when the context is in a transaction
CommitOn(c) ==
    IF c.in_txn
    THEN [c EXCEPT !.db = ConnExecute(c.db, "commit", CommitSql), !.in_txn = FALSE]
    ELSE c

\* rollback(): ROLLBACK only when the context is in a transaction
RollbackOn(c) ==
    IF c.in_txn
    THEN [c EXCEPT !.db = ConnExecute(c.db, "rollback", RollbackSql), !.in_txn = FALSE]
    ELSE c

\* the except clause of every open block, innermost first: rollback(), then raise
RECURSIVE RaiseThrough(_, _)
RaiseThrough(c, depth) ==
    IF depth = 0 THEN c ELSE RaiseThrough(RollbackOn(c), depth - 1)

BlockSql == {SqlText(<<>>, <<"I", "N", "S", "E", "R", "T">>, FALSE),
             SqlText(<<>>, <<"S", "E", "L", "E", "C", "T">>, FALSE)}

\* base: the durable data when the outermost block was entered; writes: the writing
\* statements executed under it; inner: the inner blocks that have been left
InitBlocks ==
    /\ world = WorldDoor
    /\ store = EmptyStore
    /\ last = NoCall(0)
    /\ pool = NoPool
    /\ search = NoSearch
    /\ ctx = [pc |-> "blocks", in_txn |-> FALSE, db |-> [txn |-> FALSE, data |-> 0, saved |-> 0],
              depth |-> 0, result |-> "none", base |-> 0, writes |-> 0, inner |-> 0,
              trace |-> <<>>]

BlockStep == ctx.result \in {"none", "open"} /\ Len(ctx.trace) < MaxBlockSteps

\* with ctx.transaction(): entered
BlockEnter ==
    /\ BlockStep
    /\ ctx.depth < MaxDepth
    /\ ctx' = [BeginOn(ctx) EXCEPT !.depth = @ + 1, !.result = "open",
                                   !.trace = Append(@, "enter")]
    /\ UNCHANGED <<world, store, last, pool, search>>

\* execute(sql) in the body of the innermost open block
BlockExecute(sql) ==
    /\ BlockStep
    /\ ctx.depth >= 1
    /\ LET db2 == ConnExecute(ctx.db, "execute", sql)
       IN ctx' = [ctx EXCEPT !.db = db2,
                             !.writes = IF db2.data # ctx.db.data THEN @ + 1 ELSE @,
                             !.trace = Append(@, IF db2.data # ctx.db.data THEN "write" ELSE "read")]
    /\ UNCHANGED <<world, store, last, pool, search>>

\* the body of the innermost open block ends normally: the else clause, commit()
BlockExit ==
    /\ BlockStep
    /\ ctx.depth >= 1
    /\ ctx' = [CommitOn(ctx) EXCEPT !.depth = @ - 1,
                                    !.result = IF ctx.depth = 1 THEN "normal" ELSE "open",
                                    !.inner = IF ctx.depth = 1 THEN @ ELSE @ + 1,
                                    !.trace = Append(@, "exit")]
    /\ UNCHANGED <<world, store, last, pool, search>>

\* an exception is raised in the body of the innermost open block and is caught
\* nowhere: every open block rolls back and re-raises
BlockRaise ==
    /\ BlockStep
    /\ ctx.depth >= 1
    /\ ctx' = [RaiseThrough(ctx, ctx.depth) EXCEPT !.depth = 0, !.result = "raised",
                                                   !.trace = Append(@, "raise")]
    /\ UNCHANGED <<world, store, last, pool, search>>

NextBlocks ==
    \/ BlockEnter
    \/ \E sql \in BlockSql : BlockExecute(sql)
    \/ BlockExit
    \/ BlockRaise

SpecBlocks == InitBlocks /\ [][NextBlocks]_vars

-----------------------------------------------------------------------------
(* C30 *)

\* C30: with transaction() blocks nested, the outermost block is atomic: while it is
\* open nothing it executed is committed, when it exits normally all its writes are
\* committed, and when it raises after an inner block was left none of them is
OuterBlockAtomic ==
    ctx.pc = "blocks" =>
        /\ ctx.result = "open" => Durable(ctx.db) = ctx.base
        /\ ctx.result = "normal" => Durable(ctx.db) = ctx.base + ctx.writes
        /\ ctx.result = "raised" => Durable(ctx.db) = ctx.base

====
